---- MODULE Spec2Model ----
(***************************************************************************)
(* Request core of @shulkers/api-fetcher: BaseAPIClient.makeRequest /      *)
(* makePostRequest / makeRawRequest on top of the bundled ky retry loop    *)
(* (Ky.create, Ky._retry, Ky._calculateRetryDelay, timeout, delay), and    *)
(* the three services' handleError mappers.                                *)
(***************************************************************************)
EXTENDS Integers, Sequences, FiniteSets, TLC

\* ------------------------------------------------------------------------
\* JavaScript numbers.  Millisecond quantities exceed 2^31, so a finite
\* number is kept exactly as hi*1000 + lo with 0 <= lo < 1000; Infinity and
\* NaN are separate tags.
\* ------------------------------------------------------------------------
Num(h, l) == [t |-> "num", hi |-> h, lo |-> l]
Inf == [t |-> "inf", hi |-> 0, lo |-> 0]
NaN == [t |-> "nan", hi |-> 0, lo |-> 0]
Ms(n) == Num(n \div 1000, n % 1000)

JsIsNaN(a) == a.t = "nan"

\* a < b of JavaScript: false as soon as one side is NaN
JsLt(a, b) ==
  IF a.t = "nan" \/ b.t = "nan" THEN FALSE
  ELSE IF a.t = "inf" THEN FALSE
  ELSE IF b.t = "inf" THEN TRUE
  ELSE a.hi < b.hi \/ (a.hi = b.hi /\ a.lo < b.lo)

\* a >= b of JavaScript
JsGe(a, b) ==
  IF a.t = "nan" \/ b.t = "nan" THEN FALSE
  ELSE IF a.t = "inf" THEN TRUE
  ELSE IF b.t = "inf" THEN FALSE
  ELSE a.hi > b.hi \/ (a.hi = b.hi /\ a.lo >= b.lo)

\* a - b of JavaScript, b finite
JsSub(a, b) ==
  IF a.t = "nan" THEN NaN
  ELSE IF a.t = "inf" THEN Inf
  ELSE LET l == a.lo - b.lo
       IN  IF l < 0 THEN Num(a.hi - b.hi - 1, l + 1000)
           ELSE Num(a.hi - b.hi, l)

\* Math.min(a, b)
JsMin(a, b) ==
  IF a.t = "nan" \/ b.t = "nan" THEN NaN
  ELSE IF JsLt(a, b) THEN a ELSE b

\* ------------------------------------------------------------------------
\* Program constants
\* ------------------------------------------------------------------------
maxSafeTimeout == Ms(2147483647)
retryMethods == {"get", "put", "head", "delete", "options", "trace"}
retryStatusCodes == {408, 413, 429, 500, 502, 503, 504}
retryAfterStatusCodes == {413, 429, 503}
RetryLimit == 2
maxRetryAfter == Inf
backoffLimit == Inf
\* Date.parse("2024-01-01"), in seconds
EpochThresholdSec == 1704067200

\* ------------------------------------------------------------------------
\* Bounds of the model
\* ------------------------------------------------------------------------
\* Date.now() is NowSec*1000 + NowMs
NowSec == 1800000000
NowMs == 250
\* the small plain-integer Retry-After value, in seconds
HintSec == 2
\* a plain-integer Retry-After value whose milliseconds exceed maxSafeTimeout
BigHintSec == 2147484

Now == Num(NowSec, NowMs)

\* 2^n
RECURSIVE Pow2(_)
Pow2(n) == IF n = 0 THEN 1 ELSE 2 * Pow2(n - 1)

\* variant: the exponent is the attempt count itself
RetryDelay_OffByOne(attemptCount) == Ms(300 * Pow2(attemptCount))
\* defaultRetryOptions.delay: 0.3 * 2 ** (attemptCount - 1) * 1000
RetryDelay(attemptCount) == Ms(300 * Pow2(attemptCount - 1))

\* ------------------------------------------------------------------------
\* Response headers read by the retry computation.  A header is absent
\* (null), the empty string, a plain integer n, an HTTP-date at absolute
\* second n, or text that is neither a number nor a date.
\* ------------------------------------------------------------------------
HNull == [k |-> "null", n |-> 0]
HEmpty == [k |-> "empty", n |-> 0]
HInt(n) == [k |-> "int", n |-> n]
HDate(n) == [k |-> "date", n |-> n]
HJunk == [k |-> "junk", n |-> 0]

Headers(a, b, c, d) == [ra |-> a, rl |-> b, xrl |-> c, xrl2 |-> d]
NoHeaders == Headers(HNull, HNull, HNull, HNull)

\* a ?? b
Coalesce(a, b) == IF a.k # "null" THEN a ELSE b

\* truthiness of a header string: only "" (and null) is falsy
Truthy(h) == h.k \notin {"null", "empty"}

\* variant: the header's seconds taken as milliseconds
NumberTimes1000_NoScale(h) == IF h.k = "int" THEN Ms(h.n) ELSE NaN
\* Number(retryAfter) * 1000
NumberTimes1000(h) == IF h.k = "int" THEN Num(h.n, 0) ELSE NaN

\* Date.parse(retryAfter)
DateParse(h) == IF h.k = "date" THEN Num(h.n, 0) ELSE NaN

\* ------------------------------------------------------------------------
\* Errors thrown by an attempt
\* ------------------------------------------------------------------------
NoResponse == [status |-> 0, headers |-> NoHeaders, body |-> "none"]
HTTPError(st, hd) ==
  [cls |-> "HTTPError", name |-> "HTTPError", code |-> "none",
   response |-> [status |-> st, headers |-> hd, body |-> "none"]]
TimeoutError ==
  [cls |-> "TimeoutError", name |-> "TimeoutError", code |-> "none",
   response |-> NoResponse]
TransportError(nm, cd) ==
  [cls |-> "Error", name |-> nm, code |-> cd, response |-> NoResponse]
SyntaxError ==
  [cls |-> "SyntaxError", name |-> "SyntaxError", code |-> "none",
   response |-> NoResponse]
\* signal.reason after AbortController.abort(): a DOMException
AbortReason ==
  [cls |-> "DOMException", name |-> "AbortError", code |-> "20",
   response |-> NoResponse]
NoError == [cls |-> "none", name |-> "none", code |-> "none", response |-> NoResponse]

\* error.response is set (truthy)
HasResponse(error) == error.response # NoResponse

\* ------------------------------------------------------------------------
\* Ky._calculateRetryDelay(error), called with the counter already
\* incremented: either the error is rethrown or a delay is returned.
\* ------------------------------------------------------------------------
Throw == [throw |-> TRUE, ms |-> NaN]
Return(ms) == [throw |-> FALSE, ms |-> ms]

\* the first present of the four retry-hint headers
RetryAfterHeader(hd) == Coalesce(hd.ra, Coalesce(hd.rl, Coalesce(hd.xrl, hd.xrl2)))

\* variant: a wait that is not a number is handed on as it is
AfterCapped_NaNPassesThrough(after, max) ==
  IF JsLt(after, max) \/ JsIsNaN(after) THEN after ELSE max
\* line 523: return after < max ? after : max
AfterCapped(after, max) == IF JsLt(after, max) THEN after ELSE max

\* lines 516-523: the wait derived from a retry-hint header
AfterFromHeader(retryAfter) ==
  LET after0 == NumberTimes1000(retryAfter)
      after  == IF JsIsNaN(after0) THEN JsSub(DateParse(retryAfter), Now)
                ELSE IF JsGe(after0, Num(EpochThresholdSec, 0)) THEN JsSub(after0, Now)
                ELSE after0
      max    == maxRetryAfter
  IN  AfterCapped(after, max)

\* variant: the limit test admits one retry too many
CalculateRetryDelay_LimitOffByOne(error, retryCount) ==
  IF retryCount > RetryLimit + 1 \/ error.cls = "TimeoutError" THEN Throw
  ELSE IF error.cls = "HTTPError" /\ error.response.status \notin retryStatusCodes THEN Throw
  ELSE IF error.cls = "HTTPError"
          /\ Truthy(RetryAfterHeader(error.response.headers))
          /\ error.response.status \in retryAfterStatusCodes
       THEN Return(AfterFromHeader(RetryAfterHeader(error.response.headers)))
  ELSE IF error.cls = "HTTPError" /\ error.response.status = 413 THEN Throw
  ELSE Return(JsMin(backoffLimit, RetryDelay(retryCount)))
\* variant: a TimeoutError is treated like any other thrown error
CalculateRetryDelay_RetryTimeout(error, retryCount) ==
  IF retryCount > RetryLimit THEN Throw
  ELSE IF error.cls = "HTTPError" /\ error.response.status \notin retryStatusCodes THEN Throw
  ELSE IF error.cls = "HTTPError"
          /\ Truthy(RetryAfterHeader(error.response.headers))
          /\ error.response.status \in retryAfterStatusCodes
       THEN Return(AfterFromHeader(RetryAfterHeader(error.response.headers)))
  ELSE IF error.cls = "HTTPError" /\ error.response.status = 413 THEN Throw
  ELSE Return(JsMin(backoffLimit, RetryDelay(retryCount)))
\* variant: the 413 test after the header branch is missing
CalculateRetryDelay_No413Throw(error, retryCount) ==
  IF retryCount > RetryLimit \/ error.cls = "TimeoutError" THEN Throw
  ELSE IF error.cls = "HTTPError" /\ error.response.status \notin retryStatusCodes THEN Throw
  ELSE IF error.cls = "HTTPError"
          /\ Truthy(RetryAfterHeader(error.response.headers))
          /\ error.response.status \in retryAfterStatusCodes
       THEN Return(AfterFromHeader(RetryAfterHeader(error.response.headers)))
  ELSE Return(JsMin(backoffLimit, RetryDelay(retryCount)))
\* variant: only an HTTPError is retried
CalculateRetryDelay_HttpOnly(error, retryCount) ==
  IF retryCount > RetryLimit \/ error.cls # "HTTPError" THEN Throw
  ELSE IF error.response.status \notin retryStatusCodes THEN Throw
  ELSE IF Truthy(RetryAfterHeader(error.response.headers))
          /\ error.response.status \in retryAfterStatusCodes
       THEN Return(AfterFromHeader(RetryAfterHeader(error.response.headers)))
  ELSE IF error.response.status = 413 THEN Throw
  ELSE Return(JsMin(backoffLimit, RetryDelay(retryCount)))
\* variant: the header branch does not test the status against afterStatusCodes
CalculateRetryDelay_HintAnyStatus(error, retryCount) ==
  IF retryCount > RetryLimit \/ error.cls = "TimeoutError" THEN Throw
  ELSE IF error.cls = "HTTPError" /\ error.response.status \notin retryStatusCodes THEN Throw
  ELSE IF error.cls = "HTTPError"
          /\ Truthy(RetryAfterHeader(error.response.headers))
       THEN Return(AfterFromHeader(RetryAfterHeader(error.response.headers)))
  ELSE IF error.cls = "HTTPError" /\ error.response.status = 413 THEN Throw
  ELSE Return(JsMin(backoffLimit, RetryDelay(retryCount)))
\* variant: the status of an HTTPError is not tested against retry.statusCodes
CalculateRetryDelay_AnyStatus(error, retryCount) ==
  IF retryCount > RetryLimit \/ error.cls = "TimeoutError" THEN Throw
  ELSE IF error.cls = "HTTPError"
          /\ Truthy(RetryAfterHeader(error.response.headers))
          /\ error.response.status \in retryAfterStatusCodes
       THEN Return(AfterFromHeader(RetryAfterHeader(error.response.headers)))
  ELSE IF error.cls = "HTTPError" /\ error.response.status = 413 THEN Throw
  ELSE Return(JsMin(backoffLimit, RetryDelay(retryCount)))
CalculateRetryDelay(error, retryCount) ==
  IF retryCount > RetryLimit \/ error.cls = "TimeoutError" THEN Throw
  ELSE IF error.cls = "HTTPError" /\ error.response.status \notin retryStatusCodes THEN Throw
  ELSE IF error.cls = "HTTPError"
          /\ Truthy(RetryAfterHeader(error.response.headers))
          /\ error.response.status \in retryAfterStatusCodes
       THEN Return(AfterFromHeader(RetryAfterHeader(error.response.headers)))
  ELSE IF error.cls = "HTTPError" /\ error.response.status = 413 THEN Throw
  ELSE Return(JsMin(backoffLimit, RetryDelay(retryCount)))

\* ------------------------------------------------------------------------
\* handleError of the three services: the typed error that is thrown
\* ------------------------------------------------------------------------
Services == {"spiget", "modrinth", "hangar"}
ErrorName(svc) ==
  IF svc = "spiget" THEN "SpigetError"
  ELSE IF svc = "modrinth" THEN "ModrinthError" ELSE "HangarError"

\* new XError(code, message, {status, xError: error})
StatusError(svc, cd, msg, error) ==
  [name |-> ErrorName(svc), code |-> cd, message |-> msg,
   details |-> [hasStatus |-> TRUE, status |-> error.response.status, original |-> error]]
\* variant: the details of the network / default branch omit the cause
PlainError_DropsCause(svc, cd, msg, error) ==
  [name |-> ErrorName(svc), code |-> cd, message |-> msg,
   details |-> [hasStatus |-> FALSE, status |-> 0, original |-> NoError]]
\* new XError(code, message, {xError: error})
PlainError(svc, cd, msg, error) ==
  [name |-> ErrorName(svc), code |-> cd, message |-> msg,
   details |-> [hasStatus |-> FALSE, status |-> 0, original |-> error]]

IsNetworkError(error) ==
  error.name = "NetworkError" \/ error.code = "ECONNRESET" \/ error.code = "ENOTFOUND"

\* variant: the connection-level test comes before the status tests
SpigetHandleError_NetworkFirst(error, defaultCode, defaultMessage) ==
  LET status == error.response.status
  IN  IF IsNetworkError(error)
      THEN PlainError("spiget", "NETWORK_ERROR", "Network error occurred", error)
      ELSE IF HasResponse(error) /\ status = 404
      THEN StatusError("spiget", "RESOURCE_NOT_FOUND", "Resource not found", error)
      ELSE IF HasResponse(error) /\ status = 401
      THEN StatusError("spiget", "UNAUTHORIZED", "Unauthorized access", error)
      ELSE IF HasResponse(error) /\ status = 429
      THEN StatusError("spiget", "RATE_LIMIT_EXCEEDED", "Rate limit exceeded", error)
      ELSE IF HasResponse(error) /\ status >= 400 /\ status < 500
      THEN StatusError("spiget", "INVALID_SEARCH_PARAMETERS", "Invalid request parameters", error)
      ELSE IF HasResponse(error) /\ status >= 500
      THEN StatusError("spiget", "API_REQUEST_FAILED", "Server error", error)
      ELSE PlainError("spiget", defaultCode, defaultMessage, error)
SpigetHandleError(error, defaultCode, defaultMessage) ==
  LET status == error.response.status
  IN  IF HasResponse(error) /\ status = 404
      THEN StatusError("spiget", "RESOURCE_NOT_FOUND", "Resource not found", error)
      ELSE IF HasResponse(error) /\ status = 401
      THEN StatusError("spiget", "UNAUTHORIZED", "Unauthorized access", error)
      ELSE IF HasResponse(error) /\ status = 429
      THEN StatusError("spiget", "RATE_LIMIT_EXCEEDED", "Rate limit exceeded", error)
      ELSE IF HasResponse(error) /\ status >= 400 /\ status < 500
      THEN StatusError("spiget", "INVALID_SEARCH_PARAMETERS", "Invalid request parameters", error)
      ELSE IF HasResponse(error) /\ status >= 500
      THEN StatusError("spiget", "API_REQUEST_FAILED", "Server error", error)
      ELSE IF IsNetworkError(error)
      THEN PlainError("spiget", "NETWORK_ERROR", "Network error occurred", error)
      ELSE PlainError("spiget", defaultCode, defaultMessage, error)

ModrinthHandleError(error, defaultCode, defaultMessage) ==
  LET status == error.response.status
  IN  IF HasResponse(error) /\ status = 404
      THEN StatusError("modrinth", "RESOURCE_NOT_FOUND", "Resource not found", error)
      ELSE IF HasResponse(error) /\ status = 401
      THEN StatusError("modrinth", "UNAUTHORIZED", "Unauthorized access", error)
      ELSE IF HasResponse(error) /\ status = 429
      THEN StatusError("modrinth", "RATE_LIMIT_EXCEEDED", "Rate limit exceeded", error)
      ELSE IF HasResponse(error) /\ status >= 400 /\ status < 500
      THEN StatusError("modrinth", "INVALID_SEARCH_PARAMETERS", "Invalid request parameters", error)
      ELSE IF HasResponse(error) /\ status >= 500
      THEN StatusError("modrinth", "API_REQUEST_FAILED", "Server error", error)
      ELSE IF IsNetworkError(error)
      THEN PlainError("modrinth", "NETWORK_ERROR", "Network error occurred", error)
      ELSE PlainError("modrinth", defaultCode, defaultMessage, error)

\* variant: 403 is not grouped with 401
HangarHandleError_No403(error, defaultCode, defaultMessage) ==
  LET status == error.response.status
  IN  IF HasResponse(error) /\ status = 404
      THEN StatusError("hangar", "RESOURCE_NOT_FOUND", "Resource not found", error)
      ELSE IF HasResponse(error) /\ status = 401
      THEN StatusError("hangar", "UNAUTHORIZED",
                       "Unauthorized access - this endpoint may require authentication", error)
      ELSE IF HasResponse(error) /\ status = 429
      THEN StatusError("hangar", "RATE_LIMIT_EXCEEDED", "Rate limit exceeded", error)
      ELSE IF HasResponse(error) /\ status = 422
      THEN StatusError("hangar", "VALIDATION_ERROR",
                       "Validation error - check your request parameters", error)
      ELSE IF HasResponse(error) /\ status >= 400 /\ status < 500
      THEN StatusError("hangar", "INVALID_SEARCH_PARAMETERS", "Invalid request parameters", error)
      ELSE IF HasResponse(error) /\ status >= 500
      THEN StatusError("hangar", "API_REQUEST_FAILED", "Server error", error)
      ELSE IF IsNetworkError(error)
      THEN PlainError("hangar", "NETWORK_ERROR", "Network error occurred", error)
      ELSE PlainError("hangar", defaultCode, defaultMessage, error)
HangarHandleError(error, defaultCode, defaultMessage) ==
  LET status == error.response.status
  IN  IF HasResponse(error) /\ status = 404
      THEN StatusError("hangar", "RESOURCE_NOT_FOUND", "Resource not found", error)
      ELSE IF HasResponse(error) /\ (status = 401 \/ status = 403)
      THEN StatusError("hangar", "UNAUTHORIZED",
                       "Unauthorized access - this endpoint may require authentication", error)
      ELSE IF HasResponse(error) /\ status = 429
      THEN StatusError("hangar", "RATE_LIMIT_EXCEEDED", "Rate limit exceeded", error)
      ELSE IF HasResponse(error) /\ status = 422
      THEN StatusError("hangar", "VALIDATION_ERROR",
                       "Validation error - check your request parameters", error)
      ELSE IF HasResponse(error) /\ status >= 400 /\ status < 500
      THEN StatusError("hangar", "INVALID_SEARCH_PARAMETERS", "Invalid request parameters", error)
      ELSE IF HasResponse(error) /\ status >= 500
      THEN StatusError("hangar", "API_REQUEST_FAILED", "Server error", error)
      ELSE IF IsNetworkError(error)
      THEN PlainError("hangar", "NETWORK_ERROR", "Network error occurred", error)
      ELSE PlainError("hangar", defaultCode, defaultMessage, error)

\* this.handleError: dispatch on the concrete client class
HandleError(svc, error, defaultCode, defaultMessage) ==
  IF svc = "spiget" THEN SpigetHandleError(error, defaultCode, defaultMessage)
  ELSE IF svc = "modrinth" THEN ModrinthHandleError(error, defaultCode, defaultMessage)
  ELSE HangarHandleError(error, defaultCode, defaultMessage)

\* ------------------------------------------------------------------------
\* State
\* ------------------------------------------------------------------------
VARIABLES
  service,        \* which client: the concrete subclass of BaseAPIClient
  op,             \* the BaseAPIClient method being executed
  method,         \* ky.request.method, lower case
  pc,             \* "idle", "fetching", "sleeping", "json", "done"
  retryCount,     \* Ky._retryCount of the current logical request
  requests,       \* underlying fetch calls issued for the current logical request
  attempts,       \* outcome of each underlying fetch, in order
  waits,          \* the ms handed to delay() before each retry, in order
  parseAttempted, \* response.json() ran on the final response
  result,         \* what the caller of the method observes
  mapIn,          \* handleError under test: its arguments
  mapOut,         \* handleError under test: the error it threw
  cfgTimeout,     \* options.timeout given to the client's constructor
  timeoutMs,      \* Ky._options.timeout of the current logical request
  aborted,        \* Ky._options.signal.aborted
  api,            \* the SpigetAPI download method being executed, or "none"
  phase,          \* "none", "lookup" (getResource), "download" (makeRawRequest)
  dlRequests,     \* underlying fetch calls issued to the download endpoint
  resource,       \* what getResource resolved to inside the download method
  gfacets,        \* ModrinthFacetGroup.facets of every constructed group object
  nalloc,         \* number of ModrinthFacetGroup objects constructed so far
  groups,         \* ModrinthFacetBuilder.groups: references to group objects
  built,          \* what the latest build() returned, if nothing was called since
  prevBuilt,      \* what the build() before that returned, likewise
  log,            \* history of the builder: what was added to it
  facetList,      \* the facet list handed to searchProjects in its four shapes
  wire,           \* per shape, the query string of the request that was sent
  count,          \* the argument of ModrinthAPI.getRandomProjects, if that was called
  kyCalls,        \* logical requests (Ky instances) the current method call started
  client,         \* BaseAPIClient.baseUrl and BaseAPIClient.userAgent
  conc,           \* per concurrent logical request on one client: its own Ky
  bspIn,          \* buildSearchParams under test: the options object
  bspOut          \* buildSearchParams under test: the object it returned

reqVars == <<service, op, method, pc, retryCount, requests, attempts, waits,
             parseAttempted, result, cfgTimeout, timeoutMs, aborted,
             api, phase, dlRequests, resource, count, kyCalls>>
callVars == <<count, kyCalls>>
mapVars == <<mapIn, mapOut>>
facetVars == <<gfacets, nalloc, groups, built, prevBuilt, log>>
searchVars == <<facetList, wire>>
extVars == <<client, conc, bspIn, bspOut>>
vars == <<reqVars, mapVars, facetVars, searchVars, extVars>>

Ops == {"makeRequest", "makePostRequest", "makeRawRequest"}

\* the literal codes and messages of the three catch blocks
DefaultCode(o) == IF o = "makeRawRequest" THEN "DOWNLOAD_FAILED" ELSE "API_REQUEST_FAILED"
DefaultMessage(o) ==
  IF o = "makeRequest" THEN "Failed to fetch"
  ELSE IF o = "makePostRequest" THEN "Failed to post to"
  ELSE "Failed to download from"

\* distribution_default.get / .post
MethodOf(o) == IF o = "makePostRequest" THEN "post" ELSE "get"

\* variant: every method goes through Ky._retry
IsRetriableMethod_Always(m) == TRUE
\* Ky.create: isRetriableMethod
IsRetriableMethod(m) == m \in retryMethods

NoTyped ==
  [name |-> "none", code |-> "none", message |-> "none",
   details |-> [hasStatus |-> FALSE, status |-> 0, original |-> NoError]]
NoResult == [kind |-> "none", value |-> "none", typed |-> NoTyped, raw |-> NoError]
\* the promise resolves
Value(v) == [kind |-> "value", value |-> v, typed |-> NoTyped, raw |-> NoError]
\* the promise rejects with the error handleError threw
Typed(e) == [kind |-> "typed", value |-> "none", typed |-> e, raw |-> NoError]
\* the promise rejects with an error that never went through handleError
Untyped(e) == [kind |-> "untyped", value |-> "none", typed |-> NoTyped, raw |-> e]

\* ------------------------------------------------------------------------
\* Inputs: what the server / the network does to one attempt
\* ------------------------------------------------------------------------
OkOutcome(st, b) == [ok |-> TRUE, status |-> st, body |-> b, error |-> NoError]
FailOutcome(e) == [ok |-> FALSE, status |-> e.response.status, body |-> "none", error |-> e]

\* retry-hint header combinations sent with a 503
RichHeaders ==
  { NoHeaders,
    Headers(HInt(HintSec), HNull, HNull, HNull),
    Headers(HInt(BigHintSec), HNull, HNull, HNull),
    Headers(HInt(NowSec + HintSec), HNull, HNull, HNull),
    Headers(HDate(NowSec + HintSec), HNull, HNull, HNull),
    Headers(HJunk, HNull, HNull, HNull),
    Headers(HEmpty, HInt(HintSec), HNull, HNull),
    Headers(HNull, HInt(HintSec + 1), HInt(HintSec), HNull),
    Headers(HNull, HNull, HInt(HintSec + 2), HNull),
    Headers(HNull, HNull, HNull, HInt(HintSec + 3)) }
\* those sent with the other statuses
FewHeaders ==
  { NoHeaders, Headers(HInt(HintSec), HNull, HNull, HNull) }
HeadersFor(st) ==
  IF st = 503 THEN RichHeaders
  ELSE IF st \in {413, 429}
       THEN FewHeaders \cup { Headers(HJunk, HNull, HNull, HNull),
                              Headers(HEmpty, HInt(HintSec), HNull, HNull) }
  ELSE IF st \in {404, 408, 500, 502, 504} THEN FewHeaders
  ELSE {NoHeaders}

ErrorStatuses == {304, 400, 401, 403, 404, 408, 413, 422, 429, 500, 502, 503, 504}
TransportErrors ==
  { TransportError("NetworkError", "none"), TransportError("Error", "ECONNRESET"),
    TransportError("Error", "ENOTFOUND"), TransportError("TypeError", "none") }
\* body of a 2xx response: valid JSON text, zero bytes, or text that is not JSON
OkOutcomes ==
  { OkOutcome(200, "json"), OkOutcome(200, "empty"), OkOutcome(200, "invalid"),
    OkOutcome(204, "empty") }
FailOutcomes ==
  { FailOutcome(HTTPError(st, hd)) : <<st, hd>> \in
      UNION { {<<st2, hd2>> : hd2 \in HeadersFor(st2)} : st2 \in ErrorStatuses } }
  \cup { FailOutcome(e) : e \in TransportErrors }
  \cup { FailOutcome(TimeoutError) }

\* ------------------------------------------------------------------------
\* Client options, cancellation
\* ------------------------------------------------------------------------
DefaultTimeoutMs == 10000
CustomTimeoutMs == 5000

\* an optional `timeout` field of an options object
NoTimeoutOption == [given |-> FALSE, ms |-> 0]
TimeoutOption(ms) == [given |-> TRUE, ms |-> ms]

\* the options makeRequest / makePostRequest / makeRawRequest hand to ky:
\* searchParams or json, and headers; the `timeout` field is absent
RequestTimeoutOption(o) == NoTimeoutOption
\* Ky constructor: timeout: options.timeout ?? 1e4
KyTimeout(option) == IF option.given THEN option.ms ELSE DefaultTimeoutMs

\* the resource object a lookup resolved to
NoResource == [known |-> FALSE, external |-> FALSE]
Resource(ext) == [known |-> TRUE, external |-> ext]

\* ------------------------------------------------------------------------
\* Strings and JSON text.  A string is the sequence of its pieces: each of
\* the characters [ ] , " \ is a piece of its own, and a run of other
\* characters is one piece.
\* ------------------------------------------------------------------------
Quote == "\""
Backslash == "\\"

JsString(s) == [t |-> "string", v |-> s]
JsNumber(n) == [t |-> "number", v |-> n]
JsBoolean(b) == [t |-> "boolean", v |-> b]
JsArray(xs) == [t |-> "array", v |-> xs]
JsUndefined == [t |-> "undefined", v |-> 0]
JsNull == [t |-> "null", v |-> 0]

\* String(value), also what a template literal `${value}` inserts
ToStr(value) ==
  IF value.t = "string" THEN value.v
  ELSE IF value.t = "number" THEN <<ToString(value.v)>>
  ELSE IF value.t = "boolean" THEN (IF value.v THEN <<"true">> ELSE <<"false">>)
  ELSE IF value.t = "null" THEN <<"null">>
  ELSE <<"undefined">>

RECURSIVE JsonEscape(_)
\* variant: the characters of a string are copied between the quotes as they are
JsonEscape_None(s) == s
\* JSON.stringify of a string, between the quotes: " and \ get a backslash
JsonEscape(s) ==
  IF s = <<>> THEN <<>>
  ELSE (IF Head(s) \in {Quote, Backslash} THEN <<Backslash, Head(s)>> ELSE <<Head(s)>>)
       \o JsonEscape(Tail(s))
JsonString(s) == <<Quote>> \o JsonEscape(s) \o <<Quote>>

RECURSIVE JsonJoin(_)
JsonJoin(texts) ==
  IF texts = <<>> THEN <<>>
  ELSE IF Len(texts) = 1 THEN texts[1]
  ELSE texts[1] \o <<",">> \o JsonJoin(Tail(texts))
JsonArray(texts) == <<"[">> \o JsonJoin(texts) \o <<"]">>

\* JSON.stringify of a string[]
JsonStringifyStrings(strings) ==
  JsonArray([j \in 1..Len(strings) |-> JsonString(strings[j])])
\* JSON.stringify of a string[][]
JsonStringify(arrays) ==
  JsonArray([i \in 1..Len(arrays) |-> JsonStringifyStrings(arrays[i])])

\* ------------------------------------------------------------------------
\* Modrinth facets, facet groups and the facet builder
\* ------------------------------------------------------------------------
MaxFacetsPerGroup == 2
MaxBuilderGroups == 3

\* the ModrinthFacet objects the caller holds; a facet is immutable
FacetIds == {1, 2}
FacetObject(id) ==
  IF id = 1 THEN [type |-> "downloads", operation |-> ">=", value |-> JsNumber(1000)]
  ELSE [type |-> "title", operation |-> ":", value |-> JsString(<<"a", Quote, "b", Backslash>>)]

\* ModrinthFacet.toString
FacetToString(facet) == <<facet.type, facet.operation>> \o ToStr(facet.value)

\* the ModrinthFacetGroup objects that get constructed, in this order
GroupIds == {1, 2}
FacetLists == UNION { [1..k -> FacetIds] : k \in 0..MaxFacetsPerGroup }

\* Array.prototype.indexOf with identity of objects; 0 stands for -1
IndexOf(seq, x) ==
  IF \E i \in 1..Len(seq) : seq[i] = x
  THEN CHOOSE i \in 1..Len(seq) : seq[i] = x /\ \A j \in 1..(i - 1) : seq[j] # x
  ELSE 0
\* Array.prototype.splice(index, 1)
Splice(seq, index) == [i \in 1..(Len(seq) - 1) |-> IF i < index THEN seq[i] ELSE seq[i + 1]]

\* ModrinthFacetGroup.isEmpty / toArray on the field `facets`
GroupIsEmpty(facets) == Len(facets) = 0
ToArray(facets) == [j \in 1..Len(facets) |-> FacetToString(FacetObject(facets[j]))]

\* ModrinthFacetBuilder.isEmpty and ModrinthFacetBuilder.size on the field `groups`
BuilderIsEmpty(gs) == Len(gs) = 0
BuilderSize(gs) == Len(gs)

\* variant: build stringifies the group list also when it is empty
Build_Always(gs, heap) ==
  JsonStringify([i \in 1..Len(gs) |-> ToArray(heap[gs[i]])])
\* ModrinthFacetBuilder.build on the field `groups`, whose entries refer to
\* group objects of the heap
Build(gs, heap) ==
  IF Len(gs) = 0 THEN <<>>
  ELSE JsonStringify([i \in 1..Len(gs) |-> ToArray(heap[gs[i]])])

\* variant: addGroup takes every group
AddGroup_Any(gs, heap, g) == Append(gs, g)
\* ModrinthFacetBuilder.addGroup: the field `groups` afterwards
AddGroup(gs, heap, g) ==
  IF ~GroupIsEmpty(heap[g]) THEN Append(gs, g) ELSE gs
RECURSIVE AddGroups(_, _, _)
\* ModrinthFacetBuilder.addGroups: forEach addGroup
AddGroups(gs, heap, news) ==
  IF news = <<>> THEN gs
  ELSE AddGroups(AddGroup(gs, heap, Head(news)), heap, Tail(news))

Range(seq) == { seq[i] : i \in 1..Len(seq) }

NotBuilt == [done |-> FALSE, out |-> <<>>]
Built(text) == [done |-> TRUE, out |-> text]
\* nothing was added to the builder yet
NewLog == [clean |-> TRUE, adds |-> <<>>, emptyTried |-> FALSE]
\* the builder was changed by something else than an addition
DirtyLog == [clean |-> FALSE, adds |-> <<>>, emptyTried |-> FALSE]

\* the history after an addGroup of a group holding these facets
LogAdded(l, facets) ==
  IF ~l.clean THEN l
  ELSE IF GroupIsEmpty(facets) THEN [l EXCEPT !.emptyTried = TRUE]
  ELSE [l EXCEPT !.adds = Append(@, facets)]
RECURSIVE LogAddedAll(_, _)
LogAddedAll(l, lists) ==
  IF lists = <<>> THEN l ELSE LogAddedAll(LogAdded(l, Head(lists)), Tail(lists))
\* the history after group g changed
LogGroupChanged(l, gs, g) == IF g \in Range(gs) THEN DirtyLog ELSE l

NoFacets ==
  /\ gfacets = [g \in GroupIds |-> <<>>]
  /\ nalloc = 0
  /\ groups = <<>>
  /\ built = NotBuilt
  /\ prevBuilt = NotBuilt
  /\ log = NewLog

\* ------------------------------------------------------------------------
\* ModrinthAPI.searchProjects: from the options to the query string
\* ------------------------------------------------------------------------
Shapes == {"array", "group", "builder", "string"}

\* the `facets` option: string | ModrinthFacetBuilder | ModrinthFacetGroup |
\* ModrinthFacet[] | undefined
FacetsUndefined == [shape |-> "undefined", text |-> <<>>, list |-> <<>>, gs |-> <<>>]
FacetsArray(list) == [shape |-> "array", text |-> <<>>, list |-> list, gs |-> <<>>]
\* new ModrinthFacetGroup(list)
FacetsGroup(list) == [shape |-> "group", text |-> <<>>, list |-> list, gs |-> <<>>]
\* new ModrinthFacetBuilder().addGroup(new ModrinthFacetGroup(list)); the
\* group is object 1 of the builder's own heap
FacetsBuilder(list) ==
  [shape |-> "builder", text |-> <<>>, list |-> list,
   gs |-> AddGroup(<<>>, [g \in {1} |-> list], 1)]
\* the string that builder builds
FacetsString(list) ==
  [shape |-> "string", list |-> list, gs |-> <<>>,
   text |-> Build(FacetsBuilder(list).gs, [g \in {1} |-> list])]
FacetsInput(shape, list) ==
  IF shape = "array" THEN FacetsArray(list)
  ELSE IF shape = "group" THEN FacetsGroup(list)
  ELSE IF shape = "builder" THEN FacetsBuilder(list)
  ELSE FacetsString(list)

\* ModrinthAPI.processFacets
ProcessFacets(facets) ==
  IF facets.shape = "string" THEN facets.text
  ELSE IF facets.shape = "builder" THEN Build(facets.gs, [g \in {1} |-> facets.list])
  ELSE IF facets.shape = "group" THEN JsonStringify(<<ToArray(facets.list)>>)
  ELSE IF facets.shape = "array"
       THEN JsonStringify(<<[j \in 1..Len(facets.list) |->
                               FacetToString(FacetObject(facets.list[j]))]>>)
  ELSE <<>>

\* ToBoolean of a JS value
JsTruthy(value) ==
  IF value.t \in {"undefined", "null"} THEN FALSE
  ELSE IF value.t = "string" THEN value.v # <<>>
  ELSE IF value.t = "number" THEN value.v # 0
  ELSE IF value.t = "boolean" THEN value.v
  ELSE TRUE
\* ToBoolean of the `facets` option: objects and arrays are truthy
FacetsTruthy(facets) ==
  IF facets.shape = "undefined" THEN FALSE
  ELSE IF facets.shape = "string" THEN facets.text # <<>>
  ELSE TRUE

Entry(k, v) == [key |-> k, value |-> v]
\* searchProjects: the `params` object, its keys in insertion order
SearchProjectsParams(query, facets) ==
  << Entry("index", JsString(<<"relevance">>)), Entry("offset", JsNumber(0)),
     Entry("limit", JsNumber(10)) >>
  \o (IF JsTruthy(query) THEN <<Entry("query", query)>> ELSE <<>>)
  \o (IF FacetsTruthy(facets)
      THEN <<Entry("facets", JsString(ProcessFacets(facets)))>> ELSE <<>>)

\* JSON.stringify of an array of strings, numbers and booleans
JsonStringifyArray(value) ==
  JsonArray([j \in 1..Len(value.v) |->
               IF value.v[j].t = "string" THEN JsonString(value.v[j].v)
               ELSE ToStr(value.v[j])])

\* variant: the test for undefined is missing
BuildSearchParams_KeepsUndefined(options) ==
  [i \in 1..Len(options) |->
     Entry(options[i].key,
           IF options[i].value.t = "array"
           THEN JsString(JsonStringifyArray(options[i].value))
           ELSE options[i].value)]
\* BaseAPIClient.buildSearchParams
BuildSearchParams(options) ==
  LET Defined(e) == e.value.t # "undefined"
      kept == SelectSeq(options, Defined)
  IN  [i \in 1..Len(kept) |->
         Entry(kept[i].key,
               IF kept[i].value.t = "array"
               THEN JsString(JsonStringifyArray(kept[i].value))
               ELSE kept[i].value)]

\* new URLSearchParams(object): every value through String(); the
\* percent-encoding of toString() is left out
UrlSearchParams(params) ==
  [i \in 1..Len(params) |-> [key |-> params[i].key, value |-> ToStr(params[i].value)]]

NotSent == [sent |-> FALSE, search |-> <<>>]
Sent(search) == [sent |-> TRUE, search |-> search]
\* makeRequest("/search", params): the query string of the request ky builds
SearchRequest(query, facets) ==
  Sent(UrlSearchParams(BuildSearchParams(SearchProjectsParams(query, facets))))

HasParam(request, k) == \E i \in 1..Len(request.search) : request.search[i].key = k
ParamValue(request, k) ==
  request.search[CHOOSE i \in 1..Len(request.search) : request.search[i].key = k].value

Queries == { JsUndefined, JsString(<<>>), JsString(<<"sodium">>) }

NoSearch ==
  /\ facetList = <<>>
  /\ wire = [sh \in Shapes |-> NotSent]

\* ------------------------------------------------------------------------
\* Actions
\* ------------------------------------------------------------------------
\* getRandomProjects was not the method called
NoCount == [given |-> FALSE, n |-> 0, endpoint |-> "none", search |-> <<>>]
\* new ModrinthAPI() and the others: super(baseUrl, userAgent) fills the two fields
ClientFields == [baseUrl |-> "baseUrl", userAgent |-> "userAgent"]
\* no logical request was started concurrently
NoConc == <<>>
\* buildSearchParams has not returned
NoParams == [done |-> FALSE, params |-> <<>>]
NoMapIn == [svc |-> "none", error |-> NoError, defaultCode |-> "none", defaultMessage |-> "none"]

\* new SpigetAPI() / new ModrinthAPI() / new HangarAPI(options): nothing called yet
IdleClient ==
  /\ op = "none"
  /\ method = "none"
  /\ pc = "idle"
  /\ retryCount = 0
  /\ requests = 0
  /\ attempts = <<>>
  /\ waits = <<>>
  /\ parseAttempted = FALSE
  /\ result = NoResult
  /\ timeoutMs = DefaultTimeoutMs
  /\ aborted = FALSE
  /\ api = "none"
  /\ phase = "none"
  /\ dlRequests = 0
  /\ resource = NoResource
  /\ count = NoCount
  /\ kyCalls = 0

\* no concurrent requests and no buildSearchParams call are under observation
NoExtras ==
  /\ client = ClientFields
  /\ conc = NoConc
  /\ bspIn = <<>>
  /\ bspOut = NoParams

Init ==
  /\ service \in Services
  /\ cfgTimeout = NoTimeoutOption
  /\ IdleClient
  /\ NoExtras
  /\ mapIn = NoMapIn
  /\ mapOut = NoTyped
  /\ NoFacets
  /\ NoSearch

\* Ky.create builds a fresh Ky for the method's request: _retryCount = 0, its
\* own AbortController, timeout from the options the method hands to ky
NewKy(o) ==
  /\ op' = o
  /\ method' = MethodOf(o)
  /\ pc' = "fetching"
  /\ retryCount' = 0
  /\ requests' = 0
  /\ attempts' = <<>>
  /\ waits' = <<>>
  /\ parseAttempted' = FALSE
  /\ result' = NoResult
  /\ timeoutMs' = KyTimeout(RequestTimeoutOption(o))
  /\ aborted' = FALSE

\* a client method is called
Call(o) ==
  /\ pc \in {"idle", "done"}
  /\ NewKy(o)
  /\ api' = "none"
  /\ phase' = "none"
  /\ dlRequests' = 0
  /\ resource' = NoResource
  /\ count' = NoCount
  /\ kyCalls' = 1
  /\ UNCHANGED <<service, cfgTimeout, mapVars, facetVars, searchVars, extVars>>

\* function_(): one fetch that ends with an ok response
AttemptOk(out) ==
  /\ pc = "fetching"
  /\ ~aborted
  /\ out.ok
  /\ requests' = requests + 1
  /\ dlRequests' = IF phase = "download" THEN dlRequests + 1 ELSE dlRequests
  /\ attempts' = Append(attempts, out)
  /\ IF op = "makeRawRequest"
     THEN pc' = "done" /\ result' = Value("response")
     ELSE pc' = "json" /\ result' = result
  /\ UNCHANGED <<callVars, service, op, method, retryCount, waits, parseAttempted,
                 cfgTimeout, timeoutMs, aborted, api, phase, resource,
                 mapVars, facetVars, searchVars, extVars>>

\* function_(): one fetch that throws (HTTPError for a non-ok response,
\* TimeoutError, or what fetch threw); Ky._retry decides, and an error that
\* leaves ky lands in the method's catch block.  The `_retryCount < 1` test of
\* Ky._retry cannot hold after the increment in _calculateRetryDelay.  The
\* timer of timeout() aborts the controller before it rejects; delay() starts
\* with signal.throwIfAborted().
AttemptFail(out) ==
  /\ pc = "fetching"
  /\ ~out.ok
  /\ aborted <=> out.error = AbortReason
  /\ requests' = requests + 1
  /\ dlRequests' = IF phase = "download" THEN dlRequests + 1 ELSE dlRequests
  /\ attempts' = Append(attempts, out)
  /\ aborted' = (aborted \/ out.error = TimeoutError)
  /\ IF IsRetriableMethod(method)
     THEN LET d == CalculateRetryDelay(out.error, retryCount + 1)
          IN  /\ retryCount' = retryCount + 1
              /\ IF d.throw
                 THEN /\ pc' = "done"
                      /\ waits' = waits
                      /\ result' = Typed(HandleError(service, out.error,
                                                     DefaultCode(op), DefaultMessage(op)))
                 ELSE /\ waits' = Append(waits, JsMin(d.ms, maxSafeTimeout))
                      /\ IF aborted
                         THEN /\ pc' = "done"
                              /\ result' = Typed(HandleError(service, AbortReason,
                                                             DefaultCode(op), DefaultMessage(op)))
                         ELSE /\ pc' = "sleeping"
                              /\ result' = result
     ELSE /\ retryCount' = retryCount
          /\ pc' = "done"
          /\ waits' = waits
          /\ result' = Typed(HandleError(service, out.error,
                                         DefaultCode(op), DefaultMessage(op)))
  /\ UNCHANGED <<callVars, service, op, method, parseAttempted, cfgTimeout, timeoutMs,
                 api, phase, resource, mapVars, facetVars, searchVars, extVars>>

\* delay(ms) resolves and Ky._retry recurses
DelayDone ==
  /\ pc = "sleeping"
  /\ pc' = "fetching"
  /\ UNCHANGED <<callVars, service, op, method, retryCount, requests, attempts, waits,
                 parseAttempted, result, cfgTimeout, timeoutMs, aborted,
                 api, phase, dlRequests, resource, mapVars, facetVars, searchVars, extVars>>

\* Response.json() of the platform on the awaited response: JSON.parse of
\* the body text
ResponseJson(response) ==
  IF response.body = "json" THEN Value("payload") ELSE Untyped(SyntaxError)

\* `return response.json()` of makeRequest / makePostRequest: the promise is
\* returned un-awaited, so its rejection bypasses the catch block
ReturnJson ==
  /\ pc = "json"
  /\ phase = "none"
  /\ pc' = "done"
  /\ parseAttempted' = TRUE
  /\ result' = ResponseJson(attempts[Len(attempts)])
  /\ UNCHANGED <<callVars, service, op, method, retryCount, requests, attempts, waits,
                 cfgTimeout, timeoutMs, aborted, api, phase, dlRequests, resource,
                 mapVars, facetVars, searchVars, extVars>>

Next ==
  \/ \E o \in Ops : Call(o)
  \/ \E out \in OkOutcomes : AttemptOk(out)
  \/ \E out \in FailOutcomes : AttemptFail(out)
  \/ DelayDone
  \/ ReturnJson

Spec == Init /\ [][Next]_vars

\* ------------------------------------------------------------------------
\* handleError on its own: every status, every kind of failure
\* ------------------------------------------------------------------------
StatusRange == 100..599

\* an error object that carries both a response and a connection-level code
MixedError(st, cd) ==
  [cls |-> "Error", name |-> "Error", code |-> cd,
   response |-> [status |-> st, headers |-> NoHeaders, body |-> "none"]]

MapperErrors ==
  { HTTPError(st, NoHeaders) : st \in StatusRange }
  \cup TransportErrors
  \cup { TimeoutError, SyntaxError }
  \cup { MixedError(st, "ECONNRESET") : st \in {302, 404, 503} }

InitMapper ==
  /\ service \in Services
  /\ cfgTimeout = NoTimeoutOption
  /\ IdleClient
  /\ NoExtras
  /\ NoFacets
  /\ NoSearch
  /\ mapIn \in { [svc |-> service, error |-> e, defaultCode |-> DefaultCode(o),
                  defaultMessage |-> DefaultMessage(o)] : e \in MapperErrors, o \in Ops }
  /\ mapOut = NoTyped

\* the catch block runs this.handleError(error, defaultCode, defaultMessage)
MapError ==
  /\ mapOut = NoTyped
  /\ mapOut' = HandleError(mapIn.svc, mapIn.error, mapIn.defaultCode, mapIn.defaultMessage)
  /\ UNCHANGED <<reqVars, mapIn, facetVars, searchVars, extVars>>

NextMapper == MapError

SpecMapper == InitMapper /\ [][NextMapper]_vars

\* ------------------------------------------------------------------------
\* The facet builder and its groups in the caller's hands
\* ------------------------------------------------------------------------
InitFacet ==
  /\ service = "modrinth"
  /\ cfgTimeout = NoTimeoutOption
  /\ IdleClient
  /\ NoExtras
  /\ mapIn = NoMapIn
  /\ mapOut = NoTyped
  /\ NoFacets
  /\ NoSearch

\* the builder or a group was called: earlier build() results are stale
Stale == built' = NotBuilt /\ prevBuilt' = NotBuilt

\* new ModrinthFacetGroup(facets): the array is copied
GroupNew(facets) ==
  /\ nalloc < Cardinality(GroupIds)
  /\ nalloc' = nalloc + 1
  /\ gfacets' = [gfacets EXCEPT ![nalloc + 1] = facets]
  /\ UNCHANGED <<groups, built, prevBuilt, log, reqVars, mapVars, searchVars, extVars>>

\* ModrinthFacetGroup.addFacet
GroupAddFacet(g, facet) ==
  /\ g \in 1..nalloc
  /\ Len(gfacets[g]) < MaxFacetsPerGroup
  /\ gfacets' = [gfacets EXCEPT ![g] = Append(@, facet)]
  /\ log' = LogGroupChanged(log, groups, g)
  /\ Stale
  /\ UNCHANGED <<nalloc, groups, reqVars, mapVars, searchVars, extVars>>

\* ModrinthFacetGroup.addFacets
GroupAddFacets(g, facets) ==
  /\ g \in 1..nalloc
  /\ Len(gfacets[g]) + Len(facets) <= MaxFacetsPerGroup
  /\ gfacets' = [gfacets EXCEPT ![g] = @ \o facets]
  /\ log' = IF facets = <<>> THEN log ELSE LogGroupChanged(log, groups, g)
  /\ Stale
  /\ UNCHANGED <<nalloc, groups, reqVars, mapVars, searchVars, extVars>>

\* ModrinthFacetGroup.removeFacet
GroupRemoveFacet(g, facet) ==
  /\ g \in 1..nalloc
  /\ LET index == IndexOf(gfacets[g], facet)
     IN  IF index > 0
         THEN /\ gfacets' = [gfacets EXCEPT ![g] = Splice(@, index)]
              /\ log' = LogGroupChanged(log, groups, g)
         ELSE UNCHANGED <<gfacets, log>>
  /\ Stale
  /\ UNCHANGED <<nalloc, groups, reqVars, mapVars, searchVars, extVars>>

\* ModrinthFacetGroup.clear
GroupClear(g) ==
  /\ g \in 1..nalloc
  /\ gfacets' = [gfacets EXCEPT ![g] = <<>>]
  /\ log' = IF gfacets[g] = <<>> THEN log ELSE LogGroupChanged(log, groups, g)
  /\ Stale
  /\ UNCHANGED <<nalloc, groups, reqVars, mapVars, searchVars, extVars>>

\* ModrinthFacetBuilder.addGroup
BuilderAddGroup(g) ==
  /\ g \in 1..nalloc
  /\ Len(groups) < MaxBuilderGroups
  /\ groups' = AddGroup(groups, gfacets, g)
  /\ log' = LogAdded(log, gfacets[g])
  /\ Stale
  /\ UNCHANGED <<gfacets, nalloc, reqVars, mapVars, searchVars, extVars>>

\* ModrinthFacetBuilder.addGroups
BuilderAddGroups(news) ==
  /\ Range(news) \subseteq 1..nalloc
  /\ Len(groups) + Len(news) <= MaxBuilderGroups
  /\ groups' = AddGroups(groups, gfacets, news)
  /\ log' = LogAddedAll(log, [i \in 1..Len(news) |-> gfacets[news[i]]])
  /\ Stale
  /\ UNCHANGED <<gfacets, nalloc, reqVars, mapVars, searchVars, extVars>>

\* ModrinthFacetBuilder.addFacet: a new group with the one facet
BuilderAddFacet(facet) ==
  /\ nalloc < Cardinality(GroupIds)
  /\ Len(groups) < MaxBuilderGroups
  /\ nalloc' = nalloc + 1
  /\ gfacets' = [gfacets EXCEPT ![nalloc + 1] = <<facet>>]
  /\ groups' = Append(groups, nalloc + 1)
  /\ log' = LogAdded(log, <<facet>>)
  /\ Stale
  /\ UNCHANGED <<reqVars, mapVars, searchVars, extVars>>

\* ModrinthFacetBuilder.addFacets: forEach addFacet
BuilderAddFacets(facets) ==
  /\ nalloc + Len(facets) <= Cardinality(GroupIds)
  /\ Len(groups) + Len(facets) <= MaxBuilderGroups
  /\ nalloc' = nalloc + Len(facets)
  /\ gfacets' = [g \in GroupIds |->
                   IF g > nalloc /\ g <= nalloc + Len(facets)
                   THEN <<facets[g - nalloc]>> ELSE gfacets[g]]
  /\ groups' = groups \o [i \in 1..Len(facets) |-> nalloc + i]
  /\ log' = LogAddedAll(log, [i \in 1..Len(facets) |-> <<facets[i]>>])
  /\ Stale
  /\ UNCHANGED <<reqVars, mapVars, searchVars, extVars>>

\* ModrinthFacetBuilder.removeGroup
BuilderRemoveGroup(g) ==
  /\ g \in 1..nalloc
  /\ LET index == IndexOf(groups, g)
     IN  IF index > 0
         THEN groups' = Splice(groups, index) /\ log' = DirtyLog
         ELSE UNCHANGED <<groups, log>>
  /\ Stale
  /\ UNCHANGED <<gfacets, nalloc, reqVars, mapVars, searchVars, extVars>>

\* ModrinthFacetBuilder.clear
BuilderClear ==
  /\ groups' = <<>>
  /\ log' = NewLog
  /\ Stale
  /\ UNCHANGED <<gfacets, nalloc, reqVars, mapVars, searchVars, extVars>>

\* variant: build() hands its groups over and starts afresh
BuilderBuild_Consumes ==
  /\ prevBuilt' = built
  /\ built' = Built(Build(groups, gfacets))
  /\ groups' = <<>>
  /\ UNCHANGED <<gfacets, nalloc, log, reqVars, mapVars, searchVars, extVars>>
\* ModrinthFacetBuilder.build
BuilderBuild ==
  /\ prevBuilt' = built
  /\ built' = Built(Build(groups, gfacets))
  /\ UNCHANGED <<gfacets, nalloc, groups, log, reqVars, mapVars, searchVars, extVars>>

NextFacet ==
  \/ \E facets \in FacetLists : GroupNew(facets)
  \/ \E g \in GroupIds, facet \in FacetIds : GroupAddFacet(g, facet)
  \/ \E g \in GroupIds, facets \in FacetLists : GroupAddFacets(g, facets)
  \/ \E g \in GroupIds, facet \in FacetIds : GroupRemoveFacet(g, facet)
  \/ \E g \in GroupIds : GroupClear(g)
  \/ \E g \in GroupIds : BuilderAddGroup(g)
  \/ \E news \in UNION { [1..k -> GroupIds] : k \in 0..2 } : BuilderAddGroups(news)
  \/ \E facet \in FacetIds : BuilderAddFacet(facet)
  \/ \E facets \in FacetLists : BuilderAddFacets(facets)
  \/ \E g \in GroupIds : BuilderRemoveGroup(g)
  \/ BuilderClear
  \/ BuilderBuild

SpecFacet == InitFacet /\ [][NextFacet]_vars

\* ------------------------------------------------------------------------
\* searchProjects with one facet list in each of the four shapes; the
\* server answers every search with 200 and a JSON body
\* ------------------------------------------------------------------------
InitSearch ==
  /\ service = "modrinth"
  /\ cfgTimeout = NoTimeoutOption
  /\ IdleClient
  /\ NoExtras
  /\ mapIn = NoMapIn
  /\ mapOut = NoTyped
  /\ NoFacets
  /\ facetList \in FacetLists
  /\ wire = [sh \in Shapes |-> NotSent]

\* ModrinthAPI.searchProjects({query, facets})
SearchProjects(query, shape) ==
  /\ pc \in {"idle", "done"}
  /\ NewKy("makeRequest")
  /\ wire' = [wire EXCEPT ![shape] = SearchRequest(query, FacetsInput(shape, facetList))]
  /\ count' = NoCount
  /\ kyCalls' = 1
  /\ UNCHANGED <<service, cfgTimeout, api, phase, dlRequests, resource,
                 facetList, mapVars, facetVars, extVars>>

NextSearch ==
  \/ \E query \in Queries, shape \in Shapes : SearchProjects(query, shape)
  \/ AttemptOk(OkOutcome(200, "json"))
  \/ ReturnJson

SpecSearch == InitSearch /\ [][NextSearch]_vars

\* ------------------------------------------------------------------------
\* SpigetAPI.downloadResource / downloadResourceVersion
\* ------------------------------------------------------------------------
DownloadApis == {"downloadResource", "downloadResourceVersion"}

\* new SpigetError(EXTERNAL_FILE_DOWNLOAD, ...) thrown by the method itself
ExternalDownloadError ==
  [name |-> "SpigetError", code |-> "EXTERNAL_FILE_DOWNLOAD",
   message |-> "Cannot download external resource",
   details |-> [hasStatus |-> FALSE, status |-> 0, original |-> NoError]]

\* variant: the flag is not looked at
IsExternal_Never(res) == FALSE
\* `if (resource.external)`
IsExternal(res) == res.external

InitDownload ==
  /\ service = "spiget"
  /\ cfgTimeout = NoTimeoutOption
  /\ IdleClient
  /\ NoExtras
  /\ mapIn = NoMapIn
  /\ mapOut = NoTyped
  /\ NoFacets
  /\ NoSearch

\* the method is called: `await this.getResource(resourceId)` starts
CallDownload(m) ==
  /\ pc \in {"idle", "done"}
  /\ NewKy("makeRequest")
  /\ api' = m
  /\ phase' = "lookup"
  /\ dlRequests' = 0
  /\ resource' = NoResource
  /\ count' = NoCount
  /\ kyCalls' = 1
  /\ UNCHANGED <<service, cfgTimeout, mapVars, facetVars, searchVars, extVars>>

\* getResource settles inside the method: a rejection leaves the method as
\* it is; otherwise the external flag of the parsed resource decides between
\* the throw and `return this.makeRawRequest(.../download)`
GetResourceReturn(ext) ==
  /\ pc = "json"
  /\ phase = "lookup"
  /\ LET parsed == ResponseJson(attempts[Len(attempts)])
     IN  IF parsed.kind # "value"
         THEN /\ pc' = "done"
              /\ parseAttempted' = TRUE
              /\ result' = parsed
              /\ UNCHANGED <<op, method, retryCount, requests, attempts, waits,
                             timeoutMs, aborted, phase, resource, kyCalls>>
         ELSE /\ resource' = Resource(ext)
              /\ IF IsExternal(Resource(ext))
                 THEN /\ pc' = "done"
                      /\ parseAttempted' = TRUE
                      /\ result' = Typed(ExternalDownloadError)
                      /\ UNCHANGED <<op, method, retryCount, requests, attempts, waits,
                                     timeoutMs, aborted, phase, kyCalls>>
                 ELSE /\ NewKy("makeRawRequest")
                      /\ phase' = "download"
                      /\ kyCalls' = kyCalls + 1
  /\ UNCHANGED <<service, count, cfgTimeout, api, dlRequests, mapVars, facetVars, searchVars, extVars>>

NextDownload ==
  \/ \E m \in DownloadApis : CallDownload(m)
  \/ \E out \in OkOutcomes : AttemptOk(out)
  \/ \E out \in FailOutcomes : AttemptFail(out)
  \/ DelayDone
  \/ \E ext \in BOOLEAN : GetResourceReturn(ext)

SpecDownload == InitDownload /\ [][NextDownload]_vars

\* ------------------------------------------------------------------------
\* A client constructed with a `timeout` option
\* ------------------------------------------------------------------------
\* new HangarAPI(options): super(baseUrl, userAgent) is all the constructor
\* does; the BaseAPIClient has no field for options.timeout
InitConfig ==
  /\ service = "hangar"
  /\ cfgTimeout \in {NoTimeoutOption, TimeoutOption(CustomTimeoutMs)}
  /\ IdleClient
  /\ NoExtras
  /\ mapIn = NoMapIn
  /\ mapOut = NoTyped
  /\ NoFacets
  /\ NoSearch

SpecConfig == InitConfig /\ [][Next]_vars

\* ------------------------------------------------------------------------
\* The signal of the request fires
\* ------------------------------------------------------------------------
\* variant: the timer of delay() keeps running after the abort
AbortWhileSleeping_Ignored ==
  /\ pc = "sleeping"
  /\ ~aborted
  /\ aborted' = TRUE
  /\ UNCHANGED <<callVars, service, op, method, pc, result, retryCount, requests, attempts, waits,
                 parseAttempted, cfgTimeout, timeoutMs, api, phase, dlRequests,
                 resource, mapVars, facetVars, searchVars, extVars>>
\* delay(): abortHandler clears the timer and rejects with signal.reason; the
\* rejection leaves Ky._retry and lands in the method's catch block
AbortWhileSleeping ==
  /\ pc = "sleeping"
  /\ ~aborted
  /\ aborted' = TRUE
  /\ pc' = "done"
  /\ result' = Typed(HandleError(service, AbortReason, DefaultCode(op), DefaultMessage(op)))
  /\ UNCHANGED <<callVars, service, op, method, retryCount, requests, attempts, waits,
                 parseAttempted, cfgTimeout, timeoutMs, api, phase, dlRequests,
                 resource, mapVars, facetVars, searchVars, extVars>>

\* the signal fires while fetch is pending: fetch will reject with the reason
AbortWhileFetching ==
  /\ pc = "fetching"
  /\ ~aborted
  /\ aborted' = TRUE
  /\ UNCHANGED <<callVars, service, op, method, pc, result, retryCount, requests, attempts, waits,
                 parseAttempted, cfgTimeout, timeoutMs, api, phase, dlRequests,
                 resource, mapVars, facetVars, searchVars, extVars>>

NextCancel ==
  \/ \E o \in Ops : Call(o)
  \/ \E out \in OkOutcomes : AttemptOk(out)
  \/ \E out \in FailOutcomes \cup {FailOutcome(AbortReason)} : AttemptFail(out)
  \/ DelayDone
  \/ ReturnJson
  \/ AbortWhileSleeping
  \/ AbortWhileFetching

SpecCancel == Init /\ [][NextCancel]_vars

\* ------------------------------------------------------------------------
\* ModrinthAPI.getRandomProjects(count)
\* ------------------------------------------------------------------------
\* the arguments tried: below the range, its two ends, the default, above it
Counts == {-1, 0, 10, 100, 101}

InvalidCountError ==
  [name |-> "ModrinthError", code |-> "INVALID_SEARCH_PARAMETERS",
   message |-> "Count must be between 0 and 100",
   details |-> [hasStatus |-> FALSE, status |-> 0, original |-> NoError]]

\* variant: the two ends of the range are refused as well
CountOutOfRange_Exclusive(c) == c <= 0 \/ c >= 100
\* if (count < 0 || count > 100)
CountOutOfRange(c) == c < 0 \/ c > 100

InitRandom ==
  /\ service = "modrinth"
  /\ cfgTimeout = NoTimeoutOption
  /\ IdleClient
  /\ NoExtras
  /\ mapIn = NoMapIn
  /\ mapOut = NoTyped
  /\ NoFacets
  /\ NoSearch

\* getRandomProjects(c): the throw of the range test, or
\* this.makeRequest("/projects_random", {count})
GetRandomProjects(c) ==
  /\ pc \in {"idle", "done"}
  /\ IF CountOutOfRange(c)
     THEN /\ count' = [given |-> TRUE, n |-> c, endpoint |-> "none", search |-> <<>>]
          /\ kyCalls' = 0
          /\ pc' = "done"
          /\ result' = Typed(InvalidCountError)
          /\ retryCount' = 0
          /\ requests' = 0
          /\ attempts' = <<>>
          /\ waits' = <<>>
          /\ parseAttempted' = FALSE
          /\ aborted' = FALSE
          /\ UNCHANGED <<op, method, timeoutMs>>
     ELSE /\ count' = [given |-> TRUE, n |-> c, endpoint |-> "/projects_random",
                       search |-> UrlSearchParams(
                                    BuildSearchParams(<<Entry("count", JsNumber(c))>>))]
          /\ kyCalls' = 1
          /\ NewKy("makeRequest")
  /\ UNCHANGED <<service, cfgTimeout, api, phase, dlRequests, resource,
                 mapVars, facetVars, searchVars, extVars>>

NextRandom ==
  \/ \E c \in Counts : GetRandomProjects(c)
  \/ \E out \in OkOutcomes : AttemptOk(out)
  \/ \E out \in FailOutcomes : AttemptFail(out)
  \/ DelayDone
  \/ ReturnJson

SpecRandom == InitRandom /\ [][NextRandom]_vars

\* ------------------------------------------------------------------------
\* buildSearchParams on its own: an options object of up to three keys, each
\* absent or holding one of the values below
\* ------------------------------------------------------------------------
OptionKeys == <<"query", "limit", "loaders">>
OptionValues ==
  { JsUndefined, JsNull, JsString(<<>>), JsString(<<"sodium">>), JsNumber(0),
    JsNumber(10), JsBoolean(FALSE), JsArray(<<>>),
    JsArray(<<JsString(<<"forge">>), JsString(<<"a", Quote, "b", Backslash>>)>>) }
Absent == [t |-> "absent", v |-> 0]
\* the object literal: the keys that are present, in insertion order
OptionsObject(vals) ==
  LET Present(e) == e.value # Absent
  IN  SelectSeq([i \in 1..Len(OptionKeys) |-> Entry(OptionKeys[i], vals[i])], Present)

InitParams ==
  /\ service = "modrinth"
  /\ cfgTimeout = NoTimeoutOption
  /\ IdleClient
  /\ mapIn = NoMapIn
  /\ mapOut = NoTyped
  /\ NoFacets
  /\ NoSearch
  /\ client = ClientFields
  /\ conc = NoConc
  /\ bspIn \in { OptionsObject(vals) :
                  vals \in [1..Len(OptionKeys) -> OptionValues \cup {Absent}] }
  /\ bspOut = NoParams

\* this.buildSearchParams(options) returns
CallBuildSearchParams ==
  /\ ~bspOut.done
  /\ bspOut' = [done |-> TRUE, params |-> BuildSearchParams(bspIn)]
  /\ UNCHANGED <<reqVars, mapVars, facetVars, searchVars, client, conc, bspIn>>

NextParams == CallBuildSearchParams

SpecParams == InitParams /\ [][NextParams]_vars

\* ------------------------------------------------------------------------
\* Two logical requests in flight on one client: every makeRequest /
\* makeRawRequest call goes through Ky.create, which builds a Ky of its own;
\* the event loop interleaves their attempts and sleeps in any order
\* ------------------------------------------------------------------------
RequestIds == {1, 2}
ConcOps == {"makeRequest", "makeRawRequest"}
ConcOkOutcomes == { OkOutcome(200, "json"), OkOutcome(200, "invalid") }
ConcFailOutcomes ==
  { FailOutcome(HTTPError(503, NoHeaders)),
    FailOutcome(HTTPError(503, Headers(HInt(HintSec), HNull, HNull, HNull))),
    FailOutcome(HTTPError(404, NoHeaders)),
    FailOutcome(TransportError("Error", "ECONNRESET")),
    FailOutcome(TimeoutError) }

\* a Ky that was not created yet
IdleKy ==
  [op |-> "none", pc |-> "idle", retryCount |-> 0, requests |-> 0,
   attempts |-> <<>>, waits |-> <<>>, result |-> NoResult]

InitConcurrent ==
  /\ service = "spiget"
  /\ cfgTimeout = NoTimeoutOption
  /\ IdleClient
  /\ mapIn = NoMapIn
  /\ mapOut = NoTyped
  /\ NoFacets
  /\ NoSearch
  /\ client = ClientFields
  /\ conc = [i \in RequestIds |-> IdleKy]
  /\ bspIn = <<>>
  /\ bspOut = NoParams

concUnchanged == <<reqVars, mapVars, facetVars, searchVars, client, bspIn, bspOut>>

\* variant: one attempt counter for all requests of the client
RetryCountOf_Shared(c, i) ==
  LET Sum[S \in SUBSET RequestIds] ==
        IF S = {} THEN 0
        ELSE LET j == CHOOSE x \in S : TRUE IN c[j].retryCount + Sum[S \ {j}]
  IN  Sum[RequestIds]
\* this._retryCount of the Ky built for request i
RetryCountOf(c, i) == c[i].retryCount

\* request i: the method is called, Ky.create builds its Ky (_retryCount = 0)
ConcCall(i, o) ==
  /\ conc[i].pc = "idle"
  /\ conc' = [conc EXCEPT ![i] = [IdleKy EXCEPT !.op = o, !.pc = "fetching"]]
  /\ UNCHANGED concUnchanged

\* request i: a fetch ends with an ok response
ConcAttemptOk(i, out) ==
  /\ conc[i].pc = "fetching"
  /\ out.ok
  /\ conc' = [conc EXCEPT ![i] =
                [@ EXCEPT !.requests = @ + 1,
                          !.attempts = Append(@, out),
                          !.pc = IF conc[i].op = "makeRawRequest" THEN "done" ELSE "json",
                          !.result = IF conc[i].op = "makeRawRequest"
                                     THEN Value("response") ELSE @]]
  /\ UNCHANGED concUnchanged

\* request i: a fetch throws; Ky._retry of its Ky decides on its counter
ConcAttemptFail(i, out) ==
  /\ conc[i].pc = "fetching"
  /\ ~out.ok
  /\ LET n == RetryCountOf(conc, i) + 1
         d == CalculateRetryDelay(out.error, n)
         o == conc[i].op
     IN  conc' = [conc EXCEPT ![i] =
                   [@ EXCEPT !.requests = @ + 1,
                             !.attempts = Append(@, out),
                             !.retryCount = n,
                             !.pc = IF d.throw THEN "done" ELSE "sleeping",
                             !.waits = IF d.throw THEN @
                                       ELSE Append(@, JsMin(d.ms, maxSafeTimeout)),
                             !.result = IF d.throw
                                        THEN Typed(HandleError(service, out.error,
                                                     DefaultCode(o), DefaultMessage(o)))
                                        ELSE @]]
  /\ UNCHANGED concUnchanged

\* request i: its delay(ms) resolves
ConcDelayDone(i) ==
  /\ conc[i].pc = "sleeping"
  /\ conc' = [conc EXCEPT ![i].pc = "fetching"]
  /\ UNCHANGED concUnchanged

\* request i: `return response.json()` settles
ConcReturnJson(i) ==
  /\ conc[i].pc = "json"
  /\ conc' = [conc EXCEPT ![i].pc = "done",
                          ![i].result = ResponseJson(conc[i].attempts[Len(conc[i].attempts)])]
  /\ UNCHANGED concUnchanged

NextConcurrent ==
  \/ \E i \in RequestIds, o \in ConcOps : ConcCall(i, o)
  \/ \E i \in RequestIds, out \in ConcOkOutcomes : ConcAttemptOk(i, out)
  \/ \E i \in RequestIds, out \in ConcFailOutcomes : ConcAttemptFail(i, out)
  \/ \E i \in RequestIds : ConcDelayDone(i)
  \/ \E i \in RequestIds : ConcReturnJson(i)

SpecConcurrent == InitConcurrent /\ [][NextConcurrent]_vars

\* ------------------------------------------------------------------------
\* The request under the timers of ky: a pending fetch is ended by its
\* response, by what fetch throws or by the timer of timeout(), and a pending
\* delay() by its own timer; the timer of timeout() is cleared as soon as
\* fetch settles, so nothing in the code ends the body read that
\* response.json() starts
\* ------------------------------------------------------------------------
\* the pending fetch settles
Attempt ==
  \/ \E out \in OkOutcomes : AttemptOk(out)
  \/ \E out \in FailOutcomes : AttemptFail(out)

SpecLive == Init /\ [][Next]_vars /\ WF_vars(Attempt) /\ WF_vars(DelayDone)

\* ------------------------------------------------------------------------
\* Properties
\* ------------------------------------------------------------------------
IsTimeout(out) == ~out.ok /\ out.error.cls = "TimeoutError"
IsHttpFailure(out) == ~out.ok /\ out.error.cls = "HTTPError"
\* the retry-hint header the code reads on a failed attempt
HintOf(out) == RetryAfterHeader(out.error.response.headers)
\* attempt i ended the logical request with the service's typed error
EndedAt(i) ==
  /\ i = Len(attempts)
  /\ requests = i
  /\ pc = "done"
  /\ result.kind = "typed"
  /\ result.typed.name = ErrorName(service)

\* C1: a logical request never issues more than limit + 1 underlying
\* requests, and once the attempt counter exceeds the limit the failure has
\* been propagated and nothing more is fetched.
C1_RequestsBounded ==
  /\ requests <= RetryLimit + 1
  /\ Len(attempts) = requests
  /\ retryCount > RetryLimit => EndedAt(RetryLimit + 1)
C1_Witness ==
  /\ op \in {"makeRequest", "makeRawRequest"}
  /\ requests = RetryLimit + 1
  /\ retryCount = RetryLimit + 1
  /\ pc = "done"
  /\ result.kind = "typed"

\* C2: an attempt that ends with a TimeoutError is the last attempt of its
\* logical request, whatever the method and the remaining retry budget.
C2_TimeoutTerminal ==
  \A i \in 1..Len(attempts) : IsTimeout(attempts[i]) => EndedAt(i)
C2_Witness ==
  /\ method = "get"
  /\ Len(attempts) = 2
  /\ IsTimeout(attempts[2])
  /\ retryCount <= RetryLimit
  /\ pc = "done"

\* C3 as stated: an attempt that fails with 413 is always the last one,
\* with or without a retry-hint header.
C3_Original ==
  \A i \in 1..Len(attempts) :
    (IsHttpFailure(attempts[i]) /\ attempts[i].status = 413) => EndedAt(i)
\* C3 amended: a 413 whose first present retry-hint header is absent or
\* empty is the last attempt; a 413 with a non-empty retry-hint header is
\* retried while the budget lasts.
C3_Amended ==
  \A i \in 1..Len(attempts) :
    (IsHttpFailure(attempts[i]) /\ attempts[i].status = 413) =>
      IF Truthy(HintOf(attempts[i])) /\ i <= RetryLimit /\ method \in retryMethods
      THEN Len(waits) >= i
      ELSE EndedAt(i)
C3_Witness ==
  /\ method = "get"
  /\ Len(attempts) = 2
  /\ attempts[2].status = 413
  /\ ~Truthy(HintOf(attempts[2]))
  /\ pc = "done"

\* C4: on a retryable method, an attempt failing with a status outside the
\* retryable-status set is the last attempt (so exactly 1 request when it is
\* the first), and a 404 reaches the caller as RESOURCE_NOT_FOUND.
C4_NonRetryableStatus ==
  \A i \in 1..Len(attempts) :
    (method \in retryMethods /\ IsHttpFailure(attempts[i])
       /\ attempts[i].status \notin retryStatusCodes) =>
      /\ EndedAt(i)
      /\ attempts[i].status = 404 => result.typed.code = "RESOURCE_NOT_FOUND"
C4_Witness ==
  /\ method = "get"
  /\ Len(attempts) = 1
  /\ attempts[1].status = 404
  /\ requests = 1
  /\ result.typed.code = "RESOURCE_NOT_FOUND"

\* a 429 / 503 failure whose Retry-After header is the plain integer n
PlainRetryAfter(out, n) ==
  /\ IsHttpFailure(out)
  /\ out.status \in {429, 503}
  /\ out.error.response.headers.ra = HInt(n)
\* the sequence [503 with Retry-After: HintSec, 200 with a JSON body]
C5_Scenario ==
  /\ op = "makeRequest"
  /\ Len(attempts) = 2
  /\ attempts[1].status = 503
  /\ PlainRetryAfter(attempts[1], HintSec)
  /\ attempts[2] = OkOutcome(200, "json")
  /\ pc = "done"
\* C5 as stated: the scenario returns the payload after a wait of the header
\* value in seconds with 2 requests, and every plain-integer Retry-After of
\* N seconds on a retried 429 / 503 gives a wait of N * 1000 ms.
C5_Original ==
  /\ C5_Scenario => (result = Value("payload") /\ waits = <<Num(HintSec, 0)>> /\ requests = 2)
  /\ \A i \in 1..Len(waits) : \A n \in {attempts[i].error.response.headers.ra.n} :
       PlainRetryAfter(attempts[i], n) => waits[i] = Num(n, 0)
\* C5 amended: the same, for N * 1000 below maxSafeTimeout (2147483647 ms);
\* such a failure is retried while the budget lasts.
C5_Amended ==
  /\ C5_Scenario => (result = Value("payload") /\ waits = <<Num(HintSec, 0)>> /\ requests = 2)
  /\ \A i \in 1..Len(attempts) : \A n \in {attempts[i].error.response.headers.ra.n} :
       (method \in retryMethods /\ PlainRetryAfter(attempts[i], n)
          /\ JsLt(Num(n, 0), maxSafeTimeout) /\ i <= RetryLimit) =>
         /\ Len(waits) >= i
         /\ waits[i] = Num(n, 0)
C5_Witness ==
  /\ C5_Scenario
  /\ waits = <<Num(HintSec, 0)>>
  /\ requests = 2
  /\ result = Value("payload")

\* C6: a POST is never retried: a failing makePostRequest issues exactly 1
\* request and fails at once; every wait before a retry belongs to a request
\* whose method is in the retryable-method set.
C6_PostNeverRetried ==
  /\ (op = "makePostRequest" /\ Len(attempts) >= 1 /\ ~attempts[1].ok) =>
       (EndedAt(1) /\ waits = <<>> /\ retryCount = 0)
  /\ Len(waits) > 0 => method \in retryMethods
C6_Witness ==
  /\ op = "makePostRequest"
  /\ Len(attempts) = 1
  /\ attempts[1].status = 503
  /\ Truthy(HintOf(attempts[1]))
  /\ pc = "done"
  /\ result.kind = "typed"

\* the mapping table of the three services
ExpectedCode(svc, error, defaultCode) ==
  LET st == error.response.status
      has == error.response # NoResponse
  IN  IF has /\ st = 404 THEN "RESOURCE_NOT_FOUND"
      ELSE IF has /\ st = 401 THEN "UNAUTHORIZED"
      ELSE IF has /\ st = 429 THEN "RATE_LIMIT_EXCEEDED"
      ELSE IF has /\ st = 403 /\ svc = "hangar" THEN "UNAUTHORIZED"
      ELSE IF has /\ st = 422 /\ svc = "hangar" THEN "VALIDATION_ERROR"
      ELSE IF has /\ st \in 400..499 THEN "INVALID_SEARCH_PARAMETERS"
      ELSE IF has /\ st \in 500..599 THEN "API_REQUEST_FAILED"
      ELSE IF error.name = "NetworkError" \/ error.code \in {"ECONNRESET", "ENOTFOUND"}
           THEN "NETWORK_ERROR"
      ELSE defaultCode

\* C7: handleError of each service maps every status and every other
\* failure to the kind of the table; the default branch uses the caller's
\* kind and message.
C7_MappingTable ==
  mapOut # NoTyped =>
    /\ mapOut.name = ErrorName(mapIn.svc)
    /\ mapOut.code = ExpectedCode(mapIn.svc, mapIn.error, mapIn.defaultCode)
    /\ (~mapOut.details.hasStatus /\ mapOut.code # "NETWORK_ERROR") =>
         mapOut.message = mapIn.defaultMessage
C7_Witness ==
  /\ mapIn.svc = "hangar"
  /\ mapIn.error.response.status = 422
  /\ mapOut.code = "VALIDATION_ERROR"

\* C8 as stated: a finished call either returned a value or raised the
\* service's typed error.
C8_Original ==
  pc = "done" => (result.kind = "value" \/ (result.kind = "typed"
                                            /\ result.typed.name = ErrorName(service)))

\* C9 as stated: a JSON request that succeeds with 204 or a zero-length body
\* yields the empty sentinel without attempting to parse the body.
C9_Original ==
  (pc = "done" /\ op \in {"makeRequest", "makePostRequest"}
     /\ Len(attempts) >= 1 /\ attempts[Len(attempts)].ok
     /\ (attempts[Len(attempts)].status = 204 \/ attempts[Len(attempts)].body = "empty")) =>
    (result = Value("") /\ ~parseAttempted)

\* C10: the error thrown by handleError carries the original failure object
\* in its details, on the status, network and default branches alike.
C10_OriginalKept ==
  mapOut # NoTyped => mapOut.details.original = mapIn.error
C10_Witness ==
  /\ mapOut.code = "NETWORK_ERROR"
  /\ mapIn.error.code = "ENOTFOUND"
  /\ mapOut.details.original = mapIn.error

\* JSON.parse of a text made of arrays and strings: the value, or a SyntaxError
ParseFail == [ok |-> FALSE, val |-> JsUndefined, next |-> 0]
RECURSIVE ReadString(_, _, _)
ReadString(text, i, acc) ==
  IF i > Len(text) THEN ParseFail
  ELSE IF text[i] = Quote THEN [ok |-> TRUE, val |-> JsString(acc), next |-> i + 1]
  ELSE IF text[i] = Backslash
       THEN IF i + 1 <= Len(text) /\ text[i + 1] \in {Quote, Backslash}
            THEN ReadString(text, i + 2, Append(acc, text[i + 1]))
            ELSE ParseFail
  ELSE ReadString(text, i + 1, Append(acc, text[i]))
RECURSIVE ReadValue(_, _)
RECURSIVE ReadElements(_, _, _)
ReadValue(text, i) ==
  IF i > Len(text) THEN ParseFail
  ELSE IF text[i] = Quote THEN ReadString(text, i + 1, <<>>)
  ELSE IF text[i] = "["
       THEN IF i + 1 <= Len(text) /\ text[i + 1] = "]"
            THEN [ok |-> TRUE, val |-> JsArray(<<>>), next |-> i + 2]
            ELSE ReadElements(text, i + 1, <<>>)
  ELSE ParseFail
ReadElements(text, i, acc) ==
  LET r == ReadValue(text, i)
  IN  IF ~r.ok \/ r.next > Len(text) THEN ParseFail
      ELSE IF text[r.next] = "," THEN ReadElements(text, r.next + 1, Append(acc, r.val))
      ELSE IF text[r.next] = "]"
           THEN [ok |-> TRUE, val |-> JsArray(Append(acc, r.val)), next |-> r.next + 1]
      ELSE ParseFail
JsonParse(text) ==
  LET r == ReadValue(text, 1)
  IN  IF r.ok /\ r.next = Len(text) + 1
      THEN [ok |-> TRUE, val |-> r.val]
      ELSE [ok |-> FALSE, val |-> JsUndefined]

\* the value JSON.parse gives for these facet lists written as arrays of
\* the strings field + operator + value
FacetText(id) ==
  <<FacetObject(id).type, FacetObject(id).operation>> \o ToStr(FacetObject(id).value)
ExpectedArrays(lists) ==
  JsArray([i \in 1..Len(lists) |->
             JsArray([j \in 1..Len(lists[i]) |-> JsString(FacetText(lists[i][j]))])])

\* C11: a builder that got the non-empty groups G1..Gn (n >= 1) by addGroup,
\* addGroups, addFacet or addFacets, and nothing else, builds a text that
\* JSON.parse turns into an array of exactly n arrays, in the order of the
\* additions, array i holding the strings field + operator + value of the
\* facets of Gi in their order.
C11_BuildRoundTrip ==
  (built.done /\ log.clean /\ log.adds # <<>>) =>
    LET parsed == JsonParse(built.out)
    IN  /\ parsed.ok
        /\ parsed.val.t = "array"
        /\ Len(parsed.val.v) = Len(log.adds)
        /\ parsed.val = ExpectedArrays(log.adds)
C11_Witness ==
  /\ built.done
  /\ log.clean
  /\ Len(log.adds) = 2
  /\ log.adds[1] = <<2, 1>>
  /\ log.adds[2] = <<1>>
  /\ JsonParse(built.out).ok

\* C12: whatever was called on the builder and on the groups, also on a group
\* the builder already holds, the text build() returns has no empty inner
\* array.
C12_Original ==
  built.done =>
    LET parsed == JsonParse(built.out)
    IN  parsed.ok => \A i \in 1..Len(parsed.val.v) : parsed.val.v[i] # JsArray(<<>>)

\* C13: a builder that got nothing, or only empty groups through addGroup or
\* addGroups, has an empty group list and builds the empty string, not "[]";
\* an addition of an empty group leaves the group list as it was, so the list
\* is as long as the number of non-empty additions.
C13_EmptyBuild ==
  /\ log.clean => Len(groups) = Len(log.adds)
  /\ (log.clean /\ log.adds = <<>> /\ built.done) => built.out = <<>>
C13_Witness ==
  /\ built.done
  /\ log.clean
  /\ log.adds = <<>>
  /\ log.emptyTried
  /\ built.out = <<>>

\* the `facets` parameter of a request's query string
FacetsParam(request) ==
  IF HasParam(request, "facets")
  THEN [present |-> TRUE, value |-> ParamValue(request, "facets")]
  ELSE [present |-> FALSE, value |-> <<>>]

\* C14: for every facet list, searchProjects sends the same `facets` query
\* parameter whether the list is given as a flat array, as a group, as a
\* builder holding that group, or as the string that builder builds.
C14_Original ==
  (\A sh \in Shapes : wire[sh].sent) =>
    \A a, b \in Shapes : FacetsParam(wire[a]) = FacetsParam(wire[b])

\* C15: when the facets given to searchProjects serialize to the empty
\* string, the request has no `facets` query parameter at all.
C15_Original ==
  \A sh \in Shapes :
    (wire[sh].sent /\ ProcessFacets(FacetsInput(sh, facetList)) = <<>>)
      => ~HasParam(wire[sh], "facets")

\* C16: two build() calls with nothing called in between return the same
\* text, and a build() call leaves the builder's group list and the facets of
\* every group as they were.
C16_BuildIdempotent ==
  /\ [](built.done /\ prevBuilt.done => built.out = prevBuilt.out)
  /\ [][(built'.done /\ <<built, prevBuilt>>' # <<built, prevBuilt>>)
          => (groups' = groups /\ gfacets' = gfacets)]_vars
C16_Witness ==
  /\ built.done
  /\ prevBuilt.done
  /\ Len(groups) = 2
  /\ built.out = prevBuilt.out
  /\ built.out # <<>>

\* C17: in downloadResource and downloadResourceVersion a request goes to
\* the download endpoint only after the lookup resolved to a resource that is
\* not external; for an external resource the method ends with the
\* SpigetError EXTERNAL_FILE_DOWNLOAD and no download request at all, and
\* while the lookup runs or after it failed no download request was issued.
C17_DownloadGuard ==
  /\ dlRequests > 0 => (resource.known /\ ~resource.external /\ phase = "download")
  /\ (resource.known /\ resource.external) =>
       /\ dlRequests = 0
       /\ pc = "done"
       /\ result.kind = "typed"
       /\ result.typed.name = "SpigetError"
       /\ result.typed.code = "EXTERNAL_FILE_DOWNLOAD"
  /\ phase = "lookup" => dlRequests = 0
C17_Witness ==
  /\ api \in DownloadApis
  /\ resource.known
  /\ resource.external
  /\ pc = "done"
  /\ result.typed.code = "EXTERNAL_FILE_DOWNLOAD"
  /\ dlRequests = 0

\* C18: every attempt of every request of a client constructed with
\* timeout = T runs under the per-attempt timeout T.
C18_Original ==
  (cfgTimeout.given /\ pc # "idle") => timeoutMs = cfgTimeout.ms

\* the message of ky's TimeoutError; none of the messages of the clients
\* says that the request timed out
TimeoutMessages == {"Request timed out"}
\* C19: a request that ends with a timeout failure delivers the service's
\* typed error with the default code and a message that tells of a timeout.
C19_Original ==
  (pc = "done" /\ attempts # <<>> /\ IsTimeout(attempts[Len(attempts)])) =>
    /\ result.kind = "typed"
    /\ result.typed.name = ErrorName(service)
    /\ result.typed.code = DefaultCode(op)
    /\ result.typed.message \in TimeoutMessages

\* the signal fired during a wait: no fetch is pending, and no attempt ended
\* with the abort or with a timeout, the other two ways the signal gets aborted
AbortedInSleep ==
  /\ aborted
  /\ pc # "fetching"
  /\ attempts # <<>>
  /\ attempts[Len(attempts)].error \notin {AbortReason, TimeoutError}
HintApplies(out) ==
  /\ IsHttpFailure(out)
  /\ Truthy(HintOf(out))
  /\ out.status \in {413, 429, 503}

\* C23: when no retry-hint header applies to the k-th failed attempt of a
\* logical request, the wait before the k-th retry is
\* min(backoffLimit, 300 * 2^(k-1)) ms: 300 ms before the first retry and
\* 600 ms before the second, k being the request's own attempt count.
C23_BackoffWait ==
  \A k \in 1..Len(waits) :
    ~HintApplies(attempts[k]) =>
      /\ waits[k] = JsMin(backoffLimit, Ms(300 * 2^(k - 1)))
      /\ k = 1 => waits[k] = Ms(300)
      /\ k = 2 => waits[k] = Ms(600)
C23_Witness ==
  /\ Len(waits) = 2
  /\ ~HintApplies(attempts[1])
  /\ ~HintApplies(attempts[2])
  /\ waits = <<Ms(300), Ms(600)>>
  /\ retryCount = 2

\* the first present of the four headers, in the order the claim names
FirstPresent(hd) ==
  IF hd.ra.k # "null" THEN hd.ra
  ELSE IF hd.rl.k # "null" THEN hd.rl
  ELSE IF hd.xrl.k # "null" THEN hd.xrl
  ELSE hd.xrl2
\* values retry.maxRetryAfter can be configured to
ConfigurableMax == {Inf, Ms(1000), Num(HintSec, 0), Num(BigHintSec, 0)}

\* C24: a retry-hint header (the first present of Retry-After,
\* RateLimit-Reset, X-RateLimit-Reset, X-Rate-Limit-Reset) determines the
\* wait only when the failing status is 413, 429 or 503; a 408, 500, 502 or
\* 504 that carries such a header waits the exponential backoff; and a
\* header-derived wait is never larger than maxRetryAfter.
C24_HintOnlyForAfterStatuses ==
  \A k \in 1..Len(waits) :
    LET out == attempts[k]
        h == FirstPresent(out.error.response.headers)
    IN  /\ (IsHttpFailure(out) /\ out.status \in {408, 500, 502, 504}) =>
             waits[k] = Ms(300 * 2^(k - 1))
        /\ waits[k] # Ms(300 * 2^(k - 1)) =>
             /\ IsHttpFailure(out)
             /\ out.status \in {413, 429, 503}
             /\ h.k \notin {"null", "empty"}
             /\ waits[k] = JsMin(AfterFromHeader(h), maxSafeTimeout)
             /\ ~JsLt(maxRetryAfter, AfterFromHeader(h))
             /\ \A mx \in ConfigurableMax : ~JsLt(mx, AfterCapped(AfterFromHeader(h), mx))
C24_Witness ==
  /\ Len(waits) = 2
  /\ attempts[1].status = 502
  /\ attempts[1].error.response.headers.ra = HInt(HintSec)
  /\ waits[1] = Ms(300)
  /\ attempts[2].status = 429
  /\ attempts[2].error.response.headers.ra = HInt(HintSec)
  /\ waits[2] = Ms(HintSec * 1000)

\* the attempt failed with what fetch threw: no HTTP status, no timeout
IsTransportFailure(out) == ~out.ok /\ out.error.cls \notin {"HTTPError", "TimeoutError"}

\* C27: on a retryable method, attempts that fail with a transport-level
\* error are retried with exponential backoff until the retry limit is
\* exhausted: a connection that keeps failing causes exactly limit + 1
\* underlying requests (3) and only then the failure reaches handleError.
C27_TransportRetried ==
  (/\ method \in retryMethods
   /\ \A i \in 1..Len(attempts) : IsTransportFailure(attempts[i])) =>
    /\ requests <= RetryLimit + 1
    /\ Len(waits) = IF requests <= RetryLimit THEN requests ELSE RetryLimit
    /\ \A k \in 1..Len(waits) : waits[k] = Ms(300 * 2^(k - 1))
    /\ result.kind = "typed" <=> requests = RetryLimit + 1
    /\ requests = RetryLimit + 1 =>
         /\ requests = 3
         /\ pc = "done"
         /\ result.typed.name = ErrorName(service)
         /\ result.typed.details.original = attempts[requests].error
C27_Witness ==
  /\ method = "get"
  /\ requests = 3
  /\ \A i \in 1..3 : attempts[i] = FailOutcome(TransportError("Error", "ECONNRESET"))
  /\ waits = <<Ms(300), Ms(600)>>
  /\ pc = "done"
  /\ result.typed.code = "NETWORK_ERROR"

\* the first present retry-hint header is neither a number nor a date
JunkHint(out) ==
  /\ IsHttpFailure(out)
  /\ out.status \in {413, 429, 503}
  /\ FirstPresent(out.error.response.headers).k = "junk"

\* C28: when a 413, 429 or 503 carries a retry-hint header whose value is
\* neither a number nor a parseable date, the computed wait is maxRetryAfter
\* and not the exponential backoff; with the default unbounded maxRetryAfter
\* the sleep before the retry is 2147483647 ms (maxSafeTimeout).
C28_UnparseableHint ==
  \A k \in 1..Len(attempts) :
    (JunkHint(attempts[k]) /\ method \in retryMethods /\ k <= RetryLimit) =>
      /\ Len(waits) >= k
      /\ AfterFromHeader(HJunk) = maxRetryAfter
      /\ waits[k] = Num(2147483, 647)
      /\ waits[k] # Ms(300 * 2^(k - 1))
C28_Witness ==
  /\ Len(attempts) = 2
  /\ attempts[1].status = 413
  /\ JunkHint(attempts[1])
  /\ waits[1] = maxSafeTimeout
  /\ attempts[2].status = 429
  /\ JunkHint(attempts[2])
  /\ waits[2] = maxSafeTimeout
  /\ pc = "sleeping"

\* the number of groups a text returned by build() holds
SerializedGroups(text) ==
  IF text = <<>> THEN 0
  ELSE LET parsed == JsonParse(text)
       IN  IF parsed.ok /\ parsed.val.t = "array" THEN Len(parsed.val.v) ELSE -1

\* C29: in every state a ModrinthFacetBuilder reaches by addGroup,
\* addGroups, addFacet, addFacets, removeGroup and clear (and by changes of
\* the groups it holds), isEmpty() is true exactly when size() = 0 and
\* exactly when build() returns the empty string, and size() is the number
\* of groups build() serializes.
C29_EmptySizeBuildAgree ==
  /\ BuilderIsEmpty(groups) <=> BuilderSize(groups) = 0
  /\ BuilderIsEmpty(groups) <=> Build(groups, gfacets) = <<>>
  /\ SerializedGroups(Build(groups, gfacets)) = BuilderSize(groups)
  /\ built.done =>
       /\ BuilderIsEmpty(groups) <=> built.out = <<>>
       /\ SerializedGroups(built.out) = BuilderSize(groups)
C29_Witness ==
  /\ built.done
  /\ BuilderSize(groups) = 2
  /\ ~BuilderIsEmpty(groups)
  /\ GroupIsEmpty(gfacets[groups[1]])
  /\ ~GroupIsEmpty(gfacets[groups[2]])
  /\ SerializedGroups(built.out) = 2

\* the failure carries an HTTP status of 400 or above
HasErrorStatus(error) == error.response # NoResponse /\ error.response.status >= 400
\* the failure carries a connection-level code
HasConnectionCode(error) ==
  error.name = "NetworkError" \/ error.code \in {"ECONNRESET", "ENOTFOUND"}
\* the kinds the status branches give
StatusKinds ==
  {"RESOURCE_NOT_FOUND", "UNAUTHORIZED", "RATE_LIMIT_EXCEEDED", "VALIDATION_ERROR",
   "INVALID_SEARCH_PARAMETERS", "API_REQUEST_FAILED"}

\* C30: handleError classifies in a fixed priority: a status of 400 or above
\* decides the kind first, a connection-level code is consulted only when no
\* such status applies, the caller's default kind comes last; so the
\* download path (default DOWNLOAD_FAILED) gives DOWNLOAD_FAILED only for a
\* failure with no status >= 400 and no connection-level code, and a 404
\* there gives RESOURCE_NOT_FOUND.
C30_MapperPriority ==
  mapOut # NoTyped =>
    LET e == mapIn.error
    IN  /\ HasErrorStatus(e) =>
             /\ mapOut.code \in StatusKinds
             /\ mapOut.details.hasStatus
             /\ mapOut.details.status = e.response.status
        /\ (~HasErrorStatus(e) /\ HasConnectionCode(e)) => mapOut.code = "NETWORK_ERROR"
        /\ mapOut.code = "NETWORK_ERROR" => ~HasErrorStatus(e)
        /\ (~HasErrorStatus(e) /\ ~HasConnectionCode(e)) =>
             /\ mapOut.code = mapIn.defaultCode
             /\ mapOut.message = mapIn.defaultMessage
        /\ mapOut.code = "DOWNLOAD_FAILED" =>
             /\ mapIn.defaultCode = "DOWNLOAD_FAILED"
             /\ ~HasErrorStatus(e)
             /\ ~HasConnectionCode(e)
        /\ (mapIn.defaultCode = "DOWNLOAD_FAILED" /\ e.response # NoResponse
               /\ e.response.status = 404) => mapOut.code = "RESOURCE_NOT_FOUND"
C30_Witness ==
  /\ mapIn.svc = "spiget"
  /\ mapIn.error = MixedError(404, "ECONNRESET")
  /\ mapIn.defaultCode = "DOWNLOAD_FAILED"
  /\ mapOut.code = "RESOURCE_NOT_FOUND"
  /\ mapOut.details.status = 404

\* the entries of an object that have this key
EntriesOf(obj, k) == { j \in 1..Len(obj) : obj[j].key = k }

\* C25: buildSearchParams leaves out every key whose value is undefined,
\* maps a key holding an array to one parameter whose value is the JSON
\* text of the array, hands every other value on unchanged, and returns no
\* key the options object did not have.
C25_BuildSearchParams ==
  bspOut.done =>
    /\ \A i \in 1..Len(bspIn) :
         LET e == bspIn[i]
             hits == EntriesOf(bspOut.params, e.key)
         IN  IF e.value.t = "undefined" THEN hits = {}
             ELSE /\ Cardinality(hits) = 1
                  /\ \A j \in hits :
                       IF e.value.t = "array"
                       THEN /\ bspOut.params[j].value.t = "string"
                            /\ JsonParse(bspOut.params[j].value.v) = [ok |-> TRUE, val |-> e.value]
                       ELSE bspOut.params[j].value = e.value
    /\ \A j \in 1..Len(bspOut.params) : EntriesOf(bspIn, bspOut.params[j].key) # {}
    /\ \A j \in 1..Len(bspOut.params) : bspOut.params[j].value.t # "undefined"
C25_Witness ==
  /\ bspOut.done
  /\ bspIn = << Entry("query", JsUndefined), Entry("limit", JsNumber(0)),
                Entry("loaders", JsArray(<<JsString(<<"forge">>),
                                           JsString(<<"a", Quote, "b", Backslash>>)>>)) >>
  /\ Len(bspOut.params) = 2
  /\ bspOut.params[1] = Entry("limit", JsNumber(0))
  /\ bspOut.params[2].key = "loaders"
  /\ bspOut.params[2].value.t = "string"

\* C26: getRandomProjects with a count outside 0..100 raises ModrinthError
\* INVALID_SEARCH_PARAMETERS without issuing any HTTP request and without
\* going through handleError; with a count inside 0..100 it makes exactly
\* one logical request, to /projects_random.
C26_RandomCountGuard ==
  count.given =>
    IF count.n \in 0..100
    THEN /\ kyCalls = 1
         /\ count.endpoint = "/projects_random"
         /\ count.search = <<[key |-> "count", value |-> <<ToString(count.n)>>]>>
         /\ op = "makeRequest"
         /\ requests <= RetryLimit + 1
         /\ pc = "done" => requests >= 1
         /\ result.kind = "typed" => result.typed # InvalidCountError
    ELSE /\ kyCalls = 0
         /\ requests = 0
         /\ attempts = <<>>
         /\ pc = "done"
         /\ result.kind = "typed"
         /\ result.typed.name = "ModrinthError"
         /\ result.typed.code = "INVALID_SEARCH_PARAMETERS"
         /\ result.typed.details.original = NoError
C26_Witness ==
  /\ count.given
  /\ count.n = 101
  /\ pc = "done"
  /\ requests = 0
  /\ result.typed.code = "INVALID_SEARCH_PARAMETERS"

\* what request r does after its k-th attempt when only its own attempts count
OwnDecision(r, k) == CalculateRetryDelay(r.attempts[k].error, k)

\* C21: each makeRequest / makeRawRequest call owns its retry counter: in
\* every interleaving of two concurrent logical requests on one client, the
\* budget and the backoff delays of a request follow from its own failed
\* attempts alone, whatever the other request consumed, and no operation
\* changes the client's baseUrl or userAgent.
C21_OwnRetryCounter ==
  /\ client = ClientFields
  /\ \A i \in DOMAIN conc :
       LET r == conc[i]
           failed == { k \in 1..Len(r.attempts) : ~r.attempts[k].ok }
       IN  /\ r.retryCount = Cardinality(failed)
           /\ r.requests = Len(r.attempts)
           /\ r.requests <= RetryLimit + 1
           /\ Len(r.waits) <= Cardinality(failed)
           /\ \A k \in 1..Len(r.waits) :
                /\ ~OwnDecision(r, k).throw
                /\ r.waits[k] = JsMin(OwnDecision(r, k).ms, maxSafeTimeout)
           /\ (r.pc = "sleeping") =>
                /\ Len(r.waits) = Len(r.attempts)
                /\ Len(r.attempts) <= RetryLimit
           /\ (r.pc = "done" /\ r.result.kind = "typed") =>
                /\ OwnDecision(r, Len(r.attempts)).throw
                /\ Len(r.waits) = Len(r.attempts) - 1
C21_Witness ==
  /\ DOMAIN conc = RequestIds
  /\ conc[1].pc = "done"
  /\ conc[1].requests = RetryLimit + 1
  /\ conc[1].retryCount = RetryLimit + 1
  /\ conc[1].result.kind = "typed"
  /\ conc[2].pc = "sleeping"
  /\ conc[2].retryCount = 1
  /\ conc[2].waits = <<Ms(300)>>
  /\ conc[2].attempts[1] = FailOutcome(TransportError("Error", "ECONNRESET"))

\* C22: no request blocks indefinitely: when every attempt ends (response,
\* transport failure or the per-attempt timeout) and every backoff sleep
\* ends, every makeRequest / makePostRequest / makeRawRequest call
\* eventually completes with a value or an error.
C22_Original == (pc \in {"fetching", "sleeping", "json"}) ~> (pc = "done")
====
